---- MODULE Spec2Model ----
(***************************************************************************)
(* Immanuel MCP server: the protocol dispatch registry (catalogs of tools, *)
(* resources and prompts, the direct HTTP endpoints and the JSON-RPC       *)
(* envelope transport) and the validation layer in front of the tool       *)
(* executors.                                                              *)
(*                                                                         *)
(* Python values are tagged records:                                       *)
(*   [t |-> "str", s |-> <<atoms>>, fill |-> n]  a string: its characters  *)
(*        (an atom is one character, or a chunk standing for a run of      *)
(*        ordinary characters) followed by n filler letters "x"            *)
(*   [t |-> "int" or "float", n |-> i]  a number, in units of 1/Scale      *)
(*   [t |-> "dict", d |-> f]     a dict, f a function on its keys          *)
(*   [t |-> "list", l |-> <<..>>] a list                                   *)
(*   [t |-> "null"]              None                                      *)
(* A keyword-argument bag (the arguments of a tool, the params of an       *)
(* envelope) is a function from its keys to such values.                   *)
(* Texts built by f-strings are sequences of fragments.                    *)
(***************************************************************************)
EXTENDS Integers, Sequences, FiniteSets, TLC

VARIABLES
    tools,      \* MCPService._tools: ordered dict name -> Tool
    resources,  \* MCPService._resources: ordered dict uri -> Resource
    prompts,    \* MCPService._prompts: ordered dict name -> Prompt
    pending,    \* requests received by the server and not yet handled
    last        \* the request handled last, with its response

vars == <<tools, resources, prompts, pending, last>>

catalogs == <<tools, resources, prompts>>

----------------------------------------------------------------------------
(* Bounds of the model *)

\* requests that may be waiting for the event loop at the same time
MaxPending == 1

\* envelope request ids are drawn from 1..MaxId
MaxId == 2

\* the aspect lists scored have at most MaxAspects aspects
MaxAspects == 3

\* the charts paired for interaspects have at most MaxPlanets planets
MaxPlanets == 2

\* requests in flight at once in the concurrent server
MaxConcurrent == 2

----------------------------------------------------------------------------
(* Python values *)

Null == [t |-> "null"]

Str(atoms) == [t |-> "str", s |-> atoms, fill |-> 0]

Dict(f) == [t |-> "dict", d |-> f]

List(l) == [t |-> "list", l |-> l]

EmptyDict == <<>>

Range(f) == {f[i] : i \in DOMAIN f}

\* outcome of a call: a returned value or a raised exception
Return(v) == [ok |-> TRUE, exc |-> "none", msg |-> <<>>, code |-> 0, val |-> v]

Raise(type, msg) == [ok |-> FALSE, exc |-> type, msg |-> msg, code |-> 0, val |-> Null]

\* the application's exception classes carry an error_code
ValidationError(msg) == [ok |-> FALSE, exc |-> "ValidationError", msg |-> msg, code |-> 400, val |-> Null]

ChartGenerationError(msg) == [ok |-> FALSE, exc |-> "ChartGenerationError", msg |-> msg, code |-> 422, val |-> Null]

MCPProtocolError(msg) == [ok |-> FALSE, exc |-> "MCPProtocolError", msg |-> msg, code |-> 400, val |-> Null]

ToolNotFoundError(tool_name) ==
    [ok |-> FALSE, exc |-> "ToolNotFoundError",
     msg |-> <<"Tool '", tool_name, "' not found">>, code |-> 404, val |-> Null]

ResourceNotFoundError(resource_uri) ==
    [ok |-> FALSE, exc |-> "ResourceNotFoundError",
     msg |-> <<"Resource '", resource_uri, "' not found">>, code |-> 404, val |-> Null]

PromptNotFoundError(prompt_name) ==
    [ok |-> FALSE, exc |-> "PromptNotFoundError",
     msg |-> <<"Prompt '", prompt_name, "' not found">>, code |-> 404, val |-> Null]

\* fastapi.HTTPException(status_code, detail)
HTTPException(status_code, detail) ==
    [ok |-> FALSE, exc |-> "HTTPException", msg |-> detail, code |-> status_code, val |-> Null]

\* str(e): the message; starlette's HTTPException prints "<status>: <detail>"
str_exc(e) ==
    IF e.exc = "HTTPException" THEN <<ToString(e.code), ": ">> \o e.msg ELSE e.msg

----------------------------------------------------------------------------
(* Ordered dicts: a sequence of [key, val] in insertion order *)

Keys(od) == {od[i].key : i \in DOMAIN od}

Values(od) == [i \in DOMAIN od |-> od[i].val]

Lookup(od, k) == (CHOOSE i \in DOMAIN od : od[i].key = k)

Get(od, k) == od[Lookup(od, k)].val

\* d[k] = v: replaces the value under an existing key, appends a new key
DictSet(od, k, v) ==
    IF k \in Keys(od)
    THEN [i \in DOMAIN od |-> IF od[i].key = k THEN [key |-> k, val |-> v] ELSE od[i]]
    ELSE Append(od, [key |-> k, val |-> v])

\* for item in defs: d[item[field]] = item
RECURSIVE BuildDict(_, _, _)
BuildDict(od, defs, field) ==
    IF defs = <<>> THEN od
    ELSE BuildDict(DictSet(od, Head(defs)[field], Head(defs)), Tail(defs), field)

----------------------------------------------------------------------------
(* MCPService: the three catalogs *)

\* tools_definitions of _setup_tools, in declaration order (name and the
\* "required" list of the inputSchema)
tools_definitions ==
    << [name |-> "generate_natal_chart", required |-> <<"date_time", "latitude", "longitude">>],
       [name |-> "generate_progressed_chart", required |-> <<"natal_chart", "progression_date">>],
       [name |-> "generate_solar_return", required |-> <<"birth_data", "return_year">>],
       [name |-> "generate_composite_chart", required |-> <<"person1", "person2">>],
       [name |-> "calculate_synastry", required |-> <<"person1", "person2">>],
       [name |-> "get_transits", required |-> <<"natal_chart", "transit_date">>],
       [name |-> "interpret_aspects", required |-> <<"chart_data">>],
       [name |-> "calculate_dignities", required |-> <<"chart_data">>] >>

_setup_tools == BuildDict(<<>>, tools_definitions, "name")

resources_definitions ==
    << [uri |-> "astrological_objects", name |-> "Astrological Objects", mimeType |-> "application/json"],
       [uri |-> "house_systems", name |-> "House Systems", mimeType |-> "application/json"],
       [uri |-> "aspect_patterns", name |-> "Aspect Patterns", mimeType |-> "application/json"],
       [uri |-> "sign_meanings", name |-> "Zodiac Sign Meanings", mimeType |-> "application/json"],
       [uri |-> "planet_meanings", name |-> "Planet Meanings", mimeType |-> "application/json"],
       [uri |-> "house_meanings", name |-> "House Meanings", mimeType |-> "application/json"] >>

_setup_resources == BuildDict(<<>>, resources_definitions, "uri")

\* each prompt with its arguments (name, required)
prompts_definitions ==
    << [name |-> "natal_chart_interpretation",
        arguments |-> << [name |-> "chart_data", required |-> TRUE],
                         [name |-> "focus_areas", required |-> FALSE],
                         [name |-> "detail_level", required |-> FALSE] >>],
       [name |-> "transit_report",
        arguments |-> << [name |-> "natal_chart", required |-> TRUE],
                         [name |-> "transit_data", required |-> TRUE],
                         [name |-> "time_period", required |-> FALSE] >>],
       [name |-> "compatibility_analysis",
        arguments |-> << [name |-> "synastry_data", required |-> TRUE],
                         [name |-> "relationship_type", required |-> FALSE] >>],
       [name |-> "progression_forecast",
        arguments |-> << [name |-> "progressed_chart", required |-> TRUE],
                         [name |-> "natal_chart", required |-> TRUE],
                         [name |-> "time_frame", required |-> FALSE] >>] >>

_setup_prompts == BuildDict(<<>>, prompts_definitions, "name")

\* list(self._tools.values()); the cursor is accepted and not used
\* list_tools treating the cursor as a page token: a page after the first
\* is empty
list_tools_paged(cursor) == IF cursor = [t |-> "null"] THEN Values(tools) ELSE <<>>

list_tools(cursor) == Values(tools)

\* get_tool answering with the first tool of the catalog whatever was asked
get_tool_returning_first(name) ==
    IF name \notin Keys(tools) THEN ToolNotFoundError(name)
    ELSE Return(tools[1].val)

get_tool(name) ==
    IF name \notin Keys(tools) THEN ToolNotFoundError(name)
    ELSE Return(Get(tools, name))

list_resources(cursor) == Values(resources)

\* content_map of get_resource_content: the keys of each resource's content
content_map ==
    [astrological_objects |-> {"planets", "asteroids", "points", "luminaries",
                               "personal_planets", "social_planets", "outer_planets"},
     house_systems |-> {"systems", "descriptions"},
     aspect_patterns |-> {"major_aspects", "minor_aspects"},
     sign_meanings |-> {"signs"},
     planet_meanings |-> {"planets"},
     house_meanings |-> {"houses"}]

get_resource_content(uri) ==
    IF uri \notin Keys(resources) THEN ResourceNotFoundError(uri)
    ELSE Return(IF uri \in DOMAIN content_map THEN content_map[uri] ELSE {})

list_prompts(cursor) == Values(prompts)

\* arguments.get(key, default)
dict_get(arguments, key, default) ==
    IF key \in DOMAIN arguments THEN arguments[key] ELSE default

\* the four _generate_*_prompt methods: which keys each template reads, and
\* the default used when the key is missing
prompt_generators ==
    [natal_chart_interpretation |->
        << [key |-> "chart_data", default |-> Dict(EmptyDict)],
           [key |-> "focus_areas", default |-> List(<<>>)],
           [key |-> "detail_level", default |-> Str(<<"medium">>)] >>,
     transit_report |->
        << [key |-> "natal_chart", default |-> Dict(EmptyDict)],
           [key |-> "transit_data", default |-> Dict(EmptyDict)],
           [key |-> "time_period", default |-> Str(<<"current">>)] >>,
     compatibility_analysis |->
        << [key |-> "synastry_data", default |-> Dict(EmptyDict)],
           [key |-> "relationship_type", default |-> Str(<<"romantic">>)] >>,
     progression_forecast |->
        << [key |-> "progressed_chart", default |-> Dict(EmptyDict)],
           [key |-> "natal_chart", default |-> Dict(EmptyDict)],
           [key |-> "time_frame", default |-> Str(<<"year ahead">>)] >>]

\* one PromptMessage(role="user", content={"type": "text", "text": content}),
\* the text holding the substituted values in template order
generate_prompt(name, arguments) ==
    LET slots == prompt_generators[name]
    IN  << [role |-> "user",
            content |-> [type |-> "text",
                         text |-> [i \in DOMAIN slots |->
                                     dict_get(arguments, slots[i].key, slots[i].default)]]] >>

get_prompt_content(name, arguments) ==
    IF name \notin Keys(prompts) THEN PromptNotFoundError(name)
    ELSE IF name \notin DOMAIN prompt_generators
         THEN MCPProtocolError(<<"Prompt generator not implemented for: ", name>>)
         ELSE Return(generate_prompt(name, arguments))

\* ServerCapabilities(**MCP_CAPABILITIES)
get_server_capabilities ==
    [experimental |-> EmptyDict, logging |-> EmptyDict,
     prompts |-> [listChanged |-> TRUE], resources |-> [subscribe |-> TRUE],
     tools |-> [listChanged |-> TRUE]]


----------------------------------------------------------------------------
(* Strings and numbers *)

\* numbers are kept in units of 1/Scale degree (or year)
Scale == 10 ^ 4

\* values above Cap are clamped to Cap (every range the code checks lies
\* far below it)
Cap == 10 ^ 9

PyInt(i) == [t |-> "int", n |-> i * Scale]

PyFloat(n) == [t |-> "float", n |-> n]

\* isinstance(v, (int, float))
IsNumber(v) == v.t \in {"int", "float"}

IsStr(v) == v.t = "str"

IsDict(v) == v.t = "dict"

IsList(v) == v.t = "list"

\* a string of n filler letters after the given characters
LongStr(atoms, n) == [t |-> "str", s |-> atoms, fill |-> n]

RECURSIVE AtomsLen(_)
AtomsLen(atoms) == IF atoms = <<>> THEN 0 ELSE Len(Head(atoms)) + AtomsLen(Tail(atoms))

\* len(value)
StrLen(v) == AtomsLen(v.s) + v.fill

RECURSIVE Join(_)
\* the text of a string value, for messages
Join(atoms) == IF atoms = <<>> THEN "" ELSE Head(atoms) \o Join(Tail(atoms))

Show(v) ==
    IF IsStr(v) THEN Join(v.s) \o (IF v.fill > 0 THEN "x..." ELSE "")
    ELSE IF IsNumber(v) THEN ToString(v.n) ELSE v.t

Digits == {"0", "1", "2", "3", "4", "5", "6", "7", "8", "9"}

IsDigit(a) == a \in Digits

DigitVal(a) == CHOOSE i \in 0..9 : ToString(i) = a

AllDigits(atoms) == atoms # <<>> /\ \A i \in DOMAIN atoms : IsDigit(atoms[i])

Min(a, b) == IF a < b THEN a ELSE b

Max(a, b) == IF a > b THEN a ELSE b

RECURSIVE DigitsVal(_)
\* int(digits), clamped
DigitsVal(atoms) ==
    IF atoms = <<>> THEN 0
    ELSE Min(Cap, DigitsVal(SubSeq(atoms, 1, Len(atoms) - 1)) * 10 + DigitVal(atoms[Len(atoms)]))

RECURSIVE FracVal(_, _)
\* the value of the digits after a decimal point, in units of 1/Scale
FracVal(atoms, unit) ==
    IF atoms = <<>> \/ unit = 0 THEN 0
    ELSE DigitVal(Head(atoms)) * unit + FracVal(Tail(atoms), unit \div 10)

\* the regular expression \d+(?:\.\d+)?
IsDecimal(atoms) ==
    \/ AllDigits(atoms)
    \/ \E i \in DOMAIN atoms :
          /\ atoms[i] = "."
          /\ AllDigits(SubSeq(atoms, 1, i - 1))
          /\ AllDigits(SubSeq(atoms, i + 1, Len(atoms)))

\* a decimal literal of float(): digits with at most one point and at least
\* one digit
IsMantissa(atoms) ==
    \/ AllDigits(atoms)
    \/ \E i \in DOMAIN atoms :
          /\ atoms[i] = "."
          /\ Len(atoms) > 1
          /\ \A j \in DOMAIN atoms : j # i => IsDigit(atoms[j])

MantissaVal(atoms) ==
    IF AllDigits(atoms) THEN Min(Cap, DigitsVal(atoms) * Scale)
    ELSE LET i == CHOOSE j \in DOMAIN atoms : atoms[j] = "."
         IN  Min(Cap, Min(Cap \div Scale, DigitsVal(SubSeq(atoms, 1, i - 1))) * Scale
                      + FracVal(SubSeq(atoms, i + 1, Len(atoms)), Scale \div 10))

RECURSIVE TimesPow10(_, _)
\* v * 10^k, clamped
TimesPow10(v, k) ==
    IF k = 0 \/ v = 0 \/ v >= Cap THEN Min(Cap, v)
    ELSE TimesPow10(Min(Cap, IF v > Cap \div 10 THEN Cap ELSE v * 10), k - 1)

\* float(text) for a text of digits, ".", "-" and the exponent letter:
\* [sign] mantissa [e digits]
py_float(atoms) ==
    LET neg == atoms # <<>> /\ Head(atoms) = "-"
        body == IF neg THEN Tail(atoms) ELSE atoms
        exps == {i \in DOMAIN body : body[i] \in {"e", "E"}}
        sgn(v) == IF neg THEN 0 - v ELSE v
    IN  IF exps = {}
        THEN IF IsMantissa(body) THEN Return(sgn(MantissaVal(body)))
             ELSE Raise("ValueError", <<"could not convert string to float">>)
        ELSE LET i == CHOOSE j \in exps : TRUE
                 m == SubSeq(body, 1, i - 1)
                 x == SubSeq(body, i + 1, Len(body))
             IN  IF Cardinality(exps) = 1 /\ IsMantissa(m) /\ AllDigits(x)
                 THEN Return(sgn(TimesPow10(MantissaVal(m), DigitsVal(x))))
                 ELSE Raise("ValueError", <<"could not convert string to float">>)

\* text.lower() on the letters the model uses
Lower(a) ==
    CASE a = "N" -> "n" [] a = "S" -> "s" [] a = "E" -> "e" [] a = "W" -> "w"
      [] OTHER -> a

----------------------------------------------------------------------------
(* ValidationService *)

\* the characters sanitize_input removes (the double quote, the backquote and
\* NUL, which it removes too, are not in the model's alphabet)
dangerous_chars == {"<", ">", "&", "'"}

\* max length of an input string
MaxInputLen == 1000

Whitespace == {" "}

RECURSIVE LStrip(_)
LStrip(atoms) ==
    IF atoms # <<>> /\ Head(atoms) \in Whitespace THEN LStrip(Tail(atoms)) ELSE atoms

RECURSIVE RStrip(_)
RStrip(atoms) ==
    IF atoms # <<>> /\ atoms[Len(atoms)] \in Whitespace
    THEN RStrip(SubSeq(atoms, 1, Len(atoms) - 1)) ELSE atoms

\* value.strip()
Strip(v) ==
    IF v.fill > 0 THEN [v EXCEPT !.s = LStrip(v.s)]
    ELSE [v EXCEPT !.s = RStrip(LStrip(v.s))]

RemoveDangerous(v) == [v EXCEPT !.s = SelectSeq(v.s, LAMBDA a : a \notin dangerous_chars)]

RECURSIVE sanitize_input(_)
sanitize_input(value) ==
    IF IsStr(value)
    THEN LET cleaned == RemoveDangerous(value)
         IN  IF StrLen(cleaned) > MaxInputLen
             THEN ValidationError(<<"Input string too long (max 1000 characters)">>)
             ELSE Return(Strip(cleaned))
    ELSE IF IsDict(value)
    THEN LET r == [k \in DOMAIN value.d |-> sanitize_input(value.d[k])]
         IN  IF \E k \in DOMAIN r : ~r[k].ok
             THEN r[CHOOSE k \in DOMAIN r : ~r[k].ok]
             ELSE Return(Dict([k \in DOMAIN r |-> r[k].val]))
    ELSE IF IsList(value)
    THEN LET r == [i \in DOMAIN value.l |-> sanitize_input(value.l[i])]
         IN  IF \E i \in DOMAIN r : ~r[i].ok
             THEN r[CHOOSE i \in DOMAIN r : ~r[i].ok]
             ELSE Return(List([i \in DOMAIN r |-> r[i].val]))
    ELSE Return(value)

\* the date-time texts datetime.fromisoformat accepts, among those the model
\* uses (each a chunk)
IsoDateTimes == {"1990-05-15 14:30:00", "1992-08-22 10:15:00", "2024-01-01 12:00:00"}

fromisoformat_ok(v) == v.fill = 0 /\ Join(v.s) \in IsoDateTimes

validate_datetime(date_time) ==
    IF ~IsStr(date_time)
    THEN Raise("AttributeError", <<"object has no attribute 'replace'">>)
    ELSE IF fromisoformat_ok(date_time) THEN Return(TRUE)
    ELSE ValidationError(<<"Invalid datetime format: ", Show(date_time),
                           ". Expected ISO format (YYYY-MM-DD HH:MM:SS)">>)

DirectionLetters == {"n", "s", "e", "w", "N", "S", "E", "W"}

\* re.match(r'^(\d+(?:\.\d+)?)[nsewNSEW](\d+(?:\.\d+)?)?$', coord)
dms_pattern_match(coord) ==
    /\ coord.fill = 0
    /\ \E i \in DOMAIN coord.s :
          /\ coord.s[i] \in DirectionLetters
          /\ IsDecimal(SubSeq(coord.s, 1, i - 1))
          /\ \/ i = Len(coord.s)
             \/ IsDecimal(SubSeq(coord.s, i + 1, Len(coord.s)))

validate_single_coordinate(coord, coord_type) ==
    IF IsNumber(coord)
    THEN IF coord_type = "latitude" /\ ~(-90 * Scale <= coord.n /\ coord.n <= 90 * Scale)
         THEN ValidationError(<<"Latitude must be between -90 and 90 degrees: ", Show(coord)>>)
         ELSE IF coord_type = "longitude" /\ ~(-180 * Scale <= coord.n /\ coord.n <= 180 * Scale)
         THEN ValidationError(<<"Longitude must be between -180 and 180 degrees: ", Show(coord)>>)
         ELSE Return(TRUE)
    ELSE IF IsStr(coord)
    THEN IF ~dms_pattern_match(coord)
         THEN ValidationError(<<"Invalid coordinate format: ", Show(coord),
                                ". Expected format like '32n43' or decimal degrees">>)
         ELSE LET direction == Lower(coord.s[Len(coord.s)])
                  numeric_part == SubSeq(coord.s, 1, Len(coord.s) - 1)
                  value == py_float(numeric_part)
              IN  IF ~value.ok
                  THEN ValidationError(<<"Invalid numeric value in coordinate: ", Show(coord)>>)
                  ELSE IF direction \in {"n", "s"} /\ ~(0 <= value.val /\ value.val <= 90 * Scale)
                  THEN ValidationError(<<"Latitude value out of range (0-90): ", ToString(value.val)>>)
                  ELSE IF direction \in {"e", "w"} /\ ~(0 <= value.val /\ value.val <= 180 * Scale)
                  THEN ValidationError(<<"Longitude value out of range (0-180): ", ToString(value.val)>>)
                  ELSE Return(TRUE)
    ELSE ValidationError(<<"Coordinate must be string or number: ", coord.t>>)

validate_coordinates(latitude, longitude) ==
    LET a == validate_single_coordinate(latitude, "latitude")
    IN  IF ~a.ok THEN a ELSE validate_single_coordinate(longitude, "longitude")


\* a then b: the first failure ends the sequence
Then(a, b) == IF ~a.ok THEN a ELSE b

\* except Exception as e: raise <exc>(prefix + str(e)), around the block
\* whose outcome is r
ExceptRaise(r, exc, code, prefix) ==
    IF r.ok THEN r
    ELSE [ok |-> FALSE, exc |-> exc, msg |-> prefix \o str_exc(r), code |-> code, val |-> Null]

\* text in <list of texts>
StrIn(v, texts) == IsStr(v) /\ v.fill = 0 /\ Join(v.s) \in texts

\* key in container: a dict is asked for the key, a text or a list does not
\* hold it, anything else is not iterable
NotIterable(v) == v.t \in {"int", "float", "null"}

Has(v, key) == IsDict(v) /\ key \in DOMAIN v.d

\* for field in required: if field not in args: raise
RequireFields(args, required) ==
    IF NotIterable(args) THEN Raise("TypeError", <<"argument of type '", args.t, "' is not iterable">>)
    ELSE IF \E i \in DOMAIN required : ~Has(args, required[i])
    THEN ValidationError(<<"Missing required field: ",
                           required[CHOOSE i \in DOMAIN required :
                                       /\ ~Has(args, required[i])
                                       /\ \A j \in 1..(i - 1) : Has(args, required[j])]>>)
    ELSE Return(TRUE)

HOUSE_SYSTEMS ==
    {"placidus", "koch", "porphyrius", "regiomontanus", "campanus",
     "equal", "whole_sign", "alcabitus", "krusinski", "morinus"}

DEFAULT_PLANETS ==
    {"sun", "moon", "mercury", "venus", "mars", "jupiter",
     "saturn", "uranus", "neptune", "pluto"}

EXTENDED_OBJECTS ==
    DEFAULT_PLANETS \cup {"north_node", "south_node", "chiron", "lilith", "ceres",
                          "pallas", "juno", "vesta", "part_of_fortune", "vertex"}

validate_house_system(house_system) ==
    IF ~StrIn(house_system, HOUSE_SYSTEMS)
    THEN ValidationError(<<"Invalid house system: ", Show(house_system)>>)
    ELSE Return(TRUE)

validate_objects(objects, allow_extended) ==
    LET valid_objects == IF allow_extended THEN EXTENDED_OBJECTS ELSE DEFAULT_PLANETS
    IN  IF IsList(objects)
        THEN IF \E i \in DOMAIN objects.l : ~StrIn(objects.l[i], valid_objects)
             THEN ValidationError(<<"Invalid object: ",
                      Show(objects.l[CHOOSE i \in DOMAIN objects.l :
                                        /\ ~StrIn(objects.l[i], valid_objects)
                                        /\ \A j \in 1..(i - 1) : StrIn(objects.l[j], valid_objects)])>>)
             ELSE Return(TRUE)
        ELSE IF IsStr(objects)
        THEN IF StrLen(objects) = 0 THEN Return(TRUE)
             ELSE ValidationError(<<"Invalid object: ", Show(objects)>>)
        ELSE IF IsDict(objects)
        THEN IF DOMAIN objects.d \subseteq valid_objects THEN Return(TRUE)
             ELSE ValidationError(<<"Invalid object: ", "dict key">>)
        ELSE Raise("TypeError", <<"'", objects.t, "' object is not iterable">>)

validate_timezone(timezone) ==
    IF timezone.t = "null" THEN Return(TRUE)
    ELSE IF ~IsStr(timezone) \/ StrLen(timezone) = 0
    THEN ValidationError(<<"Timezone must be a non-empty string">>)
    ELSE Return(TRUE)

valid_aspects ==
    {"conjunction", "opposition", "trine", "square", "sextile",
     "quincunx", "semisextile", "semisquare", "sesquisquare"}

\* largest orb validate_aspect_orbs accepts, in degrees
MaxOrb == 30

\* the orb test without its range
orb_ok_any_number(orb) == IsNumber(orb)

orb_ok(orb) == IsNumber(orb) /\ orb.n >= 0 /\ orb.n <= MaxOrb * Scale

validate_aspect_orbs(aspect_orbs) ==
    IF aspect_orbs.t = "null" THEN Return(TRUE)
    ELSE IF ~IsDict(aspect_orbs) THEN ValidationError(<<"Aspect orbs must be a dictionary">>)
    ELSE IF \E a \in DOMAIN aspect_orbs.d : a \notin valid_aspects
    THEN ValidationError(<<"Invalid aspect type: ",
                           CHOOSE a \in DOMAIN aspect_orbs.d : a \notin valid_aspects>>)
    ELSE IF \E a \in DOMAIN aspect_orbs.d : ~orb_ok(aspect_orbs.d[a])
    THEN ValidationError(<<"Invalid orb value for ",
                           CHOOSE a \in DOMAIN aspect_orbs.d : ~orb_ok(aspect_orbs.d[a]),
                           ". Must be between 0 and 30 degrees">>)
    ELSE Return(TRUE)

valid_chart_types == {"natal", "progressed", "solar_return", "composite", "synastry", "transits"}

chart_data_required_fields == <<"chart_type", "date_time", "coordinates", "planets", "houses">>

validate_chart_data(chart_data) ==
    LET d == chart_data.d
    IN  Then(RequireFields(chart_data, chart_data_required_fields),
        IF ~StrIn(d["chart_type"], valid_chart_types)
        THEN ValidationError(<<"Invalid chart type: ", Show(d["chart_type"])>>)
        ELSE Then(validate_datetime(d["date_time"]),
             IF ~IsDict(d["coordinates"]) \/ ~Has(d["coordinates"], "latitude")
                    \/ ~Has(d["coordinates"], "longitude")
             THEN ValidationError(<<"Invalid coordinates structure">>)
             ELSE Then(validate_coordinates(d["coordinates"].d["latitude"],
                                            d["coordinates"].d["longitude"]),
                  IF ~IsList(d["planets"]) THEN ValidationError(<<"Planets must be a list">>)
                  ELSE IF ~IsList(d["houses"]) THEN ValidationError(<<"Houses must be a list">>)
                  ELSE Return(TRUE))))

\* datetime.now().year, read from the clock when a year is validated
current_year == 2026

MinYear == 1800

validate_year(year) ==
    IF year.t # "int" THEN ValidationError(<<"Year must be an integer">>)
    ELSE IF year.n < MinYear * Scale \/ year.n > (current_year + 100) * Scale
    THEN ValidationError(<<"Year out of reasonable range: ", Show(year)>>)
    ELSE Return(TRUE)

\* the optional-field check "if key in args: validate(args[key])"
IfPresent(args, key, check(_)) ==
    IF Has(args, key) THEN check(args.d[key]) ELSE Return(TRUE)

validate_objects_extended(objects) == validate_objects(objects, TRUE)

_validate_natal_chart_args(args) ==
    Then(RequireFields(args, <<"date_time", "latitude", "longitude">>),
    Then(validate_datetime(args.d["date_time"]),
    Then(validate_coordinates(args.d["latitude"], args.d["longitude"]),
    Then(IfPresent(args, "timezone", validate_timezone),
    Then(IfPresent(args, "house_system", validate_house_system),
         IfPresent(args, "objects", validate_objects_extended))))))

_validate_progressed_chart_args(args) ==
    Then(RequireFields(args, <<"natal_chart", "progression_date">>),
    Then(validate_chart_data(args.d["natal_chart"]),
    Then(validate_datetime(args.d["progression_date"]),
         IfPresent(args, "house_system", validate_house_system))))

\* loc = args["return_location"]; validate_coordinates(loc["latitude"], loc["longitude"])
validate_return_location(loc) ==
    IF ~IsDict(loc) THEN Raise("TypeError", <<"return_location is not subscriptable by key">>)
    ELSE IF ~Has(loc, "latitude") THEN Raise("KeyError", <<"latitude">>)
    ELSE IF ~Has(loc, "longitude") THEN Raise("KeyError", <<"longitude">>)
    ELSE validate_coordinates(loc.d["latitude"], loc.d["longitude"])

_validate_solar_return_args(args) ==
    Then(RequireFields(args, <<"birth_data", "return_year">>),
    IF ~IsDict(args.d["birth_data"]) THEN ValidationError(<<"Birth data must be an object">>)
    ELSE Then(_validate_natal_chart_args(args.d["birth_data"]),
         Then(validate_year(args.d["return_year"]),
              IfPresent(args, "return_location", validate_return_location))))

_validate_composite_chart_args(args) ==
    Then(RequireFields(args, <<"person1", "person2">>),
    Then(_validate_natal_chart_args(args.d["person1"]),
    Then(_validate_natal_chart_args(args.d["person2"]),
         IfPresent(args, "house_system", validate_house_system))))

_validate_synastry_args(args) ==
    Then(RequireFields(args, <<"person1", "person2">>),
    Then(_validate_natal_chart_args(args.d["person1"]),
    Then(_validate_natal_chart_args(args.d["person2"]),
         IfPresent(args, "aspect_orbs", validate_aspect_orbs))))

_validate_transits_args(args) ==
    Then(RequireFields(args, <<"natal_chart", "transit_date">>),
    Then(validate_chart_data(args.d["natal_chart"]),
    Then(validate_datetime(args.d["transit_date"]),
         IfPresent(args, "objects", validate_objects_extended))))

valid_levels == {"basic", "medium", "detailed"}

validate_detail_level(level) ==
    IF ~StrIn(level, valid_levels)
    THEN ValidationError(<<"Invalid detail level: ", Show(level)>>)
    ELSE Return(TRUE)

_validate_interpret_aspects_args(args) ==
    IF ~Has(args, "chart_data") THEN ValidationError(<<"Missing required field: chart_data">>)
    ELSE Then(validate_chart_data(args.d["chart_data"]),
              IfPresent(args, "detail_level", validate_detail_level))

_validate_dignities_args(args) ==
    IF ~Has(args, "chart_data") THEN ValidationError(<<"Missing required field: chart_data">>)
    ELSE validate_chart_data(args.d["chart_data"])

\* the names that have a validator in validate_mcp_tool_arguments
validators ==
    {"generate_natal_chart", "generate_progressed_chart", "generate_solar_return",
     "generate_composite_chart", "calculate_synastry", "get_transits",
     "interpret_aspects", "calculate_dignities"}

validate_mcp_tool_arguments(tool_name, arguments) ==
    IF tool_name \notin validators THEN Return(TRUE)
    ELSE CASE tool_name = "generate_natal_chart" -> _validate_natal_chart_args(arguments)
           [] tool_name = "generate_progressed_chart" -> _validate_progressed_chart_args(arguments)
           [] tool_name = "generate_solar_return" -> _validate_solar_return_args(arguments)
           [] tool_name = "generate_composite_chart" -> _validate_composite_chart_args(arguments)
           [] tool_name = "calculate_synastry" -> _validate_synastry_args(arguments)
           [] tool_name = "get_transits" -> _validate_transits_args(arguments)
           [] tool_name = "interpret_aspects" -> _validate_interpret_aspects_args(arguments)
           [] tool_name = "calculate_dignities" -> _validate_dignities_args(arguments)


----------------------------------------------------------------------------
(* Request and data models (pydantic, extra="forbid") *)

Bool(b) == [t |-> "bool", b |-> b]

PydanticError(msg) == Raise("PydanticValidationError", msg)

\* whether a value has the declared type of a field
TypeOk(v, type) ==
    CASE type = "str" -> IsStr(v)
      [] type = "optstr" -> IsStr(v) \/ v.t = "null"
      [] type = "float" -> IsNumber(v)
      [] type = "int" -> v.t = "int"
      [] type = "optint" -> v.t = "int" \/ v.t = "null"
      [] type = "bool" -> v.t = "bool"
      [] type = "dict" -> IsDict(v)
      [] type = "optdict" -> IsDict(v) \/ v.t = "null"
      [] type = "strlist" -> IsList(v) /\ \A i \in DOMAIN v.l : IsStr(v.l[i])
      [] type = "optstrlist" -> v.t = "null" \/ (IsList(v) /\ \A i \in DOMAIN v.l : IsStr(v.l[i]))
      [] type = "list" -> IsList(v)
      [] OTHER -> TRUE

\* Model(**kwargs): no key outside the fields, every required field given,
\* every given field of its type. fields: key -> [type, required]
FieldsOk(kwargs, fields) ==
    /\ IsDict(kwargs)
    /\ DOMAIN kwargs.d \subseteq DOMAIN fields
    /\ \A k \in DOMAIN fields : fields[k].required => k \in DOMAIN kwargs.d
    /\ \A k \in DOMAIN kwargs.d : TypeOk(kwargs.d[k], fields[k].type)

Req(type) == [type |-> type, required |-> TRUE]

Opt(type) == [type |-> type, required |-> FALSE]

\* the fields left out take their default
WithDefaults(kwargs, defaults) ==
    Dict([k \in DOMAIN kwargs.d \cup DOMAIN defaults |->
            IF k \in DOMAIN kwargs.d THEN kwargs.d[k] ELSE defaults[k]])

\* GeographicCoordinate.validate_coordinates on one value: a text must end
\* in a direction letter after digits and points, a number lie in [-180, 180]
coordinate_field_ok(v) ==
    IF IsStr(v)
    THEN /\ StrLen(v) > 0
         /\ v.fill = 0
         /\ Lower(v.s[Len(v.s)]) \in {"n", "s", "e", "w"}
         /\ AllDigits(SelectSeq(SubSeq(v.s, 1, Len(v.s) - 1), LAMBDA a : a # "."))
    ELSE IF IsNumber(v) THEN -180 * Scale <= v.n /\ v.n <= 180 * Scale
    ELSE FALSE

GeographicCoordinate(kwargs) ==
    IF /\ FieldsOk(kwargs, [latitude |-> Req("any"), longitude |-> Req("any")])
       /\ coordinate_field_ok(kwargs.d["latitude"])
       /\ coordinate_field_ok(kwargs.d["longitude"])
    THEN Return(kwargs)
    ELSE PydanticError(<<"GeographicCoordinate">>)

ChartRequestFields ==
    [date_time |-> Req("str"), coordinates |-> Req("dict"), timezone |-> Opt("optstr"),
     house_system |-> Opt("optstr"), objects |-> Opt("optstrlist")]

ChartRequestDefaults ==
    [timezone |-> Null, house_system |-> Str(<<"placidus">>), objects |-> Null]

\* a ChartRequest or a subclass with more fields
ChartRequestWith(kwargs, more, what) ==
    IF /\ FieldsOk(kwargs, ChartRequestFields @@ more)
       /\ fromisoformat_ok(kwargs.d["date_time"])
       /\ GeographicCoordinate(kwargs.d["coordinates"]).ok
    THEN Return(WithDefaults(kwargs, ChartRequestDefaults))
    ELSE PydanticError(<<what>>)

ChartRequest(kwargs) == ChartRequestWith(kwargs, <<>>, "ChartRequest")

NatalChartRequest(kwargs) == ChartRequestWith(kwargs, <<>>, "NatalChartRequest")

ProgressedChartRequest(kwargs) ==
    ChartRequestWith(kwargs, [natal_chart |-> Req("dict"), progression_date |-> Req("str")],
                     "ProgressedChartRequest")

SolarReturnRequest(kwargs) ==
    LET r == ChartRequestWith(kwargs, [birth_data |-> Req("dict"), return_year |-> Req("int"),
                                       return_location |-> Opt("optdict")],
                              "SolarReturnRequest")
    IN  IF /\ r.ok
           /\ ChartRequest(kwargs.d["birth_data"]).ok
           /\ (Has(kwargs, "return_location") /\ IsDict(kwargs.d["return_location"]))
                 => GeographicCoordinate(kwargs.d["return_location"]).ok
        THEN Return(WithDefaults(r.val, [return_location |-> Null]))
        ELSE PydanticError(<<"SolarReturnRequest">>)

CompositeChartRequest(kwargs) ==
    IF /\ FieldsOk(kwargs, [person1 |-> Req("dict"), person2 |-> Req("dict"),
                            house_system |-> Opt("optstr")])
       /\ ChartRequest(kwargs.d["person1"]).ok
       /\ ChartRequest(kwargs.d["person2"]).ok
    THEN Return(Dict([person1 |-> ChartRequest(kwargs.d["person1"]).val,
                      person2 |-> ChartRequest(kwargs.d["person2"]).val,
                      house_system |-> IF Has(kwargs, "house_system")
                                       THEN kwargs.d["house_system"] ELSE Str(<<"placidus">>)]))
    ELSE PydanticError(<<"CompositeChartRequest">>)

SynastryRequest(kwargs) ==
    IF /\ FieldsOk(kwargs, [person1 |-> Req("dict"), person2 |-> Req("dict"),
                            aspect_orbs |-> Opt("optdict")])
       /\ ChartRequest(kwargs.d["person1"]).ok
       /\ ChartRequest(kwargs.d["person2"]).ok
       /\ (Has(kwargs, "aspect_orbs") /\ IsDict(kwargs.d["aspect_orbs"]))
             => \A a \in DOMAIN kwargs.d["aspect_orbs"].d : IsNumber(kwargs.d["aspect_orbs"].d[a])
    THEN Return(Dict([person1 |-> ChartRequest(kwargs.d["person1"]).val,
                      person2 |-> ChartRequest(kwargs.d["person2"]).val,
                      aspect_orbs |-> IF Has(kwargs, "aspect_orbs")
                                      THEN kwargs.d["aspect_orbs"] ELSE Null]))
    ELSE PydanticError(<<"SynastryRequest">>)

TransitsRequest(kwargs) ==
    IF FieldsOk(kwargs, [natal_chart |-> Req("dict"), transit_date |-> Req("str"),
                         objects |-> Opt("optstrlist")])
    THEN Return(WithDefaults(kwargs, [objects |-> Null]))
    ELSE PydanticError(<<"TransitsRequest">>)

PlanetPositionFields ==
    [name |-> Req("str"), longitude |-> Req("float"), latitude |-> Req("float"),
     distance |-> Req("float"), speed |-> Req("float"), sign |-> Req("str"),
     house |-> Opt("optint"), dignities |-> Opt("optdict")]

PlanetPosition(kwargs) ==
    IF FieldsOk(kwargs, PlanetPositionFields)
    THEN Return(WithDefaults(kwargs, [house |-> Null, dignities |-> Null]))
    ELSE PydanticError(<<"PlanetPosition">>)

HouseFields == [number |-> Req("int"), cusp |-> Req("float"), sign |-> Req("str"), ruler |-> Opt("optstr")]

House(kwargs) ==
    IF FieldsOk(kwargs, HouseFields) THEN Return(WithDefaults(kwargs, [ruler |-> Null]))
    ELSE PydanticError(<<"House">>)

AspectFields ==
    [planet1 |-> Req("str"), planet2 |-> Req("str"), aspect_type |-> Req("str"),
     orb |-> Req("float"), exact_orb |-> Req("float"), applying |-> Req("bool"),
     separating |-> Req("bool"), interpretation |-> Opt("optstr")]

Aspect(kwargs) ==
    IF FieldsOk(kwargs, AspectFields) THEN Return(WithDefaults(kwargs, [interpretation |-> Null]))
    ELSE PydanticError(<<"Aspect">>)

ChartDataFields ==
    [chart_type |-> Req("str"), date_time |-> Req("str"), coordinates |-> Req("dict"),
     timezone |-> Req("str"), house_system |-> Req("str"), planets |-> Req("list"),
     houses |-> Req("list"), aspects |-> Req("list"), metadata |-> Opt("dict")]

\* every item of a list field builds its model
ItemsOk(list, model(_)) == \A i \in DOMAIN list.l : model(list.l[i]).ok

ItemsOf(list, model(_)) == List([i \in DOMAIN list.l |-> model(list.l[i]).val])

ChartData(kwargs) ==
    IF /\ FieldsOk(kwargs, ChartDataFields)
       /\ GeographicCoordinate(kwargs.d["coordinates"]).ok
       /\ ItemsOk(kwargs.d["planets"], PlanetPosition)
       /\ ItemsOk(kwargs.d["houses"], House)
       /\ ItemsOk(kwargs.d["aspects"], Aspect)
    THEN Return(Dict([k \in DOMAIN kwargs.d \cup {"metadata"} |->
                CASE k = "planets" -> ItemsOf(kwargs.d[k], PlanetPosition)
                  [] k = "houses" -> ItemsOf(kwargs.d[k], House)
                  [] k = "aspects" -> ItemsOf(kwargs.d[k], Aspect)
                  [] k = "metadata" -> IF Has(kwargs, k) THEN kwargs.d[k] ELSE Dict(EmptyDict)
                  [] OTHER -> kwargs.d[k]]))
    ELSE PydanticError(<<"ChartData">>)


----------------------------------------------------------------------------
(* ChartService and the ephemeris provider *)

\* Settings.default_house_system
default_house_system == Str(<<"placidus">>)

LowerAll(atoms) == [i \in DOMAIN atoms |-> Lower(atoms[i])]

\* re.fullmatch(r"(\d+)([nswe])(\d+)", coord_str): the position of the letter
dms_fullmatch(atoms) ==
    {i \in DOMAIN atoms : /\ atoms[i] \in {"n", "s", "w", "e"}
                          /\ AllDigits(SubSeq(atoms, 1, i - 1))
                          /\ AllDigits(SubSeq(atoms, i + 1, Len(atoms)))}

\* parse_coordinate reading the digits after the letter as hundredths of a
\* degree
parse_coordinate_decimal_minutes(coord) ==
    IF IsNumber(coord) THEN Return(coord.n)
    ELSE IF IsStr(coord) /\ coord.fill = 0 /\ dms_fullmatch(LowerAll(Strip(coord).s)) # {}
    THEN LET coord_str == LowerAll(Strip(coord).s)
             i == CHOOSE j \in dms_fullmatch(coord_str) : TRUE
             value == DigitsVal(SubSeq(coord_str, 1, i - 1)) * Scale
                        + (DigitsVal(SubSeq(coord_str, i + 1, Len(coord_str))) * Scale) \div 100
         IN  Return(IF coord_str[i] \in {"s", "w"} THEN 0 - value ELSE value)
    ELSE ValidationError(<<"Invalid coordinate format: ", Show(coord)>>)

parse_coordinate(coord) ==
    IF IsNumber(coord) THEN Return(coord.n)
    ELSE IF IsStr(coord) /\ coord.fill = 0
    THEN LET coord_str == LowerAll(Strip(coord).s)
             match == dms_fullmatch(coord_str)
         IN  IF match # {}
             THEN LET i == CHOOSE j \in match : TRUE
                      degrees == Min(Cap \div Scale, DigitsVal(SubSeq(coord_str, 1, i - 1)))
                      minutes == Min(Cap \div Scale, DigitsVal(SubSeq(coord_str, i + 1, Len(coord_str))))
                      value == Min(Cap, degrees * Scale + (minutes * Scale) \div 60)
                  IN  Return(IF coord_str[i] \in {"s", "w"} THEN 0 - value ELSE value)
             ELSE LET f == py_float(coord_str)
                  IN  IF f.ok THEN f
                      ELSE ValidationError(<<"Invalid coordinate format: ", Show(coord)>>)
    ELSE ValidationError(<<"Invalid coordinate format: ", Show(coord)>>)

_convert_coordinates(lat, lon) ==
    LET a == parse_coordinate(lat)
        b == parse_coordinate(lon)
    IN  IF ~a.ok THEN a ELSE IF ~b.ok THEN b ELSE Return(<<a.val, b.val>>)

\* getattr(request, name): a model instance has its fields and no others
Attr(request, name) ==
    IF name \in DOMAIN request.d THEN Return(request.d[name])
    ELSE Raise("AttributeError", <<"object has no attribute '", name, "'">>)

\* value or default
OrElse(v, default) ==
    IF v.t = "null" \/ (IsStr(v) /\ StrLen(v) = 0) THEN default ELSE v

\* PlanetPosition(name=name, longitude=float(obj.longitude), ...) of an object
\* of the provider's chart: the attributes it lacks take their defaults
convert_object(obj) ==
    Dict([name |-> obj.d["name"],
          longitude |-> PyFloat(obj.d["longitude"].n),
          latitude |-> dict_get(obj.d, "latitude", PyFloat(0)),
          distance |-> dict_get(obj.d, "distance", PyFloat(0)),
          speed |-> dict_get(obj.d, "speed", PyFloat(0)),
          sign |-> dict_get(obj.d, "sign", Str(<<>>)),
          house |-> dict_get(obj.d, "house", Null)])

\* House(number=int(number), cusp=float(house.longitude), sign=...)
convert_house(house) ==
    Dict([number |-> house.d["number"],
          cusp |-> PyFloat(house.d["longitude"].n),
          sign |-> dict_get(house.d, "sign", Str(<<>>))])

\* Aspect(planet1=aspect_data.active.name, ...): orb and exact_orb are both
\* the provider's orb
convert_aspect(aspect_data) ==
    Dict([planet1 |-> dict_get(aspect_data.d["active"].d, "name", Str(<<"unknown">>)),
          planet2 |-> dict_get(aspect_data.d["passive"].d, "name", Str(<<"unknown">>)),
          aspect_type |-> dict_get(aspect_data.d, "type", Str(<<"unknown">>)),
          orb |-> PyFloat(dict_get(aspect_data.d, "orb", PyInt(0)).n),
          exact_orb |-> PyFloat(dict_get(aspect_data.d, "orb", PyInt(0)).n),
          applying |-> dict_get(aspect_data.d, "applying", Bool(FALSE)),
          separating |-> dict_get(aspect_data.d, "separating", Bool(FALSE))])

\* the items of a collection of the chart that have all the attributes the
\* loop asks for, converted in the order of the collection
converted(items, attributes, convert(_)) ==
    [i \in DOMAIN SelectSeq(items, LAMBDA item : attributes \subseteq DOMAIN item.d) |->
        convert(SelectSeq(items, LAMBDA item : attributes \subseteq DOMAIN item.d)[i])]

\* the chart the provider returned, converted to ChartData. A chart whose
\* objects do not have the attribute shapes the conversion reads makes it fail.
_convert_immanuel_chart(chart, chart_type, request) ==
    LET date_time == Attr(request, "date_time")
        coordinates == Attr(request, "coordinates")
        built == ChartData(Dict(
                   [chart_type |-> Str(<<chart_type>>),
                    date_time |-> date_time.val,
                    coordinates |-> coordinates.val,
                    timezone |-> OrElse(dict_get(request.d, "timezone", Null), Str(<<"UTC">>)),
                    house_system |-> OrElse(dict_get(request.d, "house_system", Null),
                                            default_house_system),
                    planets |-> List(converted(chart.objects, {"longitude"}, convert_object)),
                    houses |-> List(converted(chart.houses, {"longitude"}, convert_house)),
                    aspects |-> List(converted(chart.aspects, {"active", "passive"},
                                               convert_aspect)),
                    metadata |-> Dict([generated_at |-> Str(<<"utcnow">>)])]))
        failure == IF chart.shape # "conforming"
                   THEN Raise("AttributeError", <<"object has no attribute 'get'">>)
                   ELSE IF ~date_time.ok THEN date_time
                   ELSE IF ~coordinates.ok THEN coordinates
                   ELSE built
    IN  IF failure.ok THEN failure
        ELSE ChartGenerationError(<<"Failed to convert chart data: ">> \o str_exc(failure))

\* charts.Subject(...) and charts.Chart(...): the provider raises or returns
\* a chart
provider_chart(prov) ==
    IF prov.t = "raise" THEN Raise("ProviderError", <<"ephemeris provider failed">>)
    ELSE Return(prov)

\* the body shared by the generate_* methods: convert the coordinates, ask
\* the provider, convert its chart; any exception becomes ChartGenerationError
generate_chart(request, coords, prov, chart_type, what) ==
    ExceptRaise(Then(coords,
                Then(provider_chart(prov), _convert_immanuel_chart(prov, chart_type, request))),
                "ChartGenerationError", 422, <<"Failed to generate ", what, ": ">>)

request_coordinates(request) ==
    _convert_coordinates(request.d["coordinates"].d["latitude"],
                         request.d["coordinates"].d["longitude"])

generate_natal_chart(request, prov) ==
    generate_chart(request, request_coordinates(request), prov, "natal", "natal chart")

generate_progressed_chart(request, prov) ==
    generate_chart(request, request_coordinates(request), prov, "progressed", "progressed chart")

generate_solar_return(request, prov) ==
    generate_chart(request,
                   IF request.d["return_location"].t # "null"
                   THEN _convert_coordinates(request.d["return_location"].d["latitude"],
                                             request.d["return_location"].d["longitude"])
                   ELSE request_coordinates(request),
                   prov, "solar_return", "solar return chart")

\* the conversion reads request.date_time and request.coordinates, which a
\* CompositeChartRequest does not have
generate_composite_chart(request, prov) ==
    generate_chart(request,
                   Then(request_coordinates(request.d["person1"]),
                        request_coordinates(request.d["person2"])),
                   prov, "composite", "composite chart")

\* both natal charts, then the composite chart; the interaspects and the
\* score lie between and cannot fail
synastry_data(chart1, chart2, composite) ==
    Then(chart1, Then(chart2, Then(composite,
         Return(Dict([person1_chart |-> chart1.val, person2_chart |-> chart2.val,
                      composite_chart |-> composite.val])))))

calculate_synastry(request, prov) ==
    ExceptRaise(synastry_data(
                    generate_natal_chart(request.d["person1"], prov),
                    generate_natal_chart(request.d["person2"], prov),
                    generate_composite_chart(
                        Dict([person1 |-> request.d["person1"], person2 |-> request.d["person2"],
                              house_system |-> Str(<<"placidus">>)]), prov)),
                "ChartGenerationError", 422, <<"Failed to calculate synastry: ">>)

\* the transit chart is asked of the provider; _calculate_transit_aspects
\* returns no aspects
get_transits(request, prov) ==
    LET chart == provider_chart(prov)
    IN  IF chart.ok THEN Return(List(<<>>))
        ELSE ChartGenerationError(<<"Failed to calculate transits: ">> \o str_exc(chart))

\* name.lower() / sign.lower() on the names the model uses
lower_text(text) ==
    CASE text = "Sun" -> "sun" [] text = "Leo" -> "leo" [] text = "Aries" -> "aries"
      [] OTHER -> text

dignity_map ==
    [sun |-> [leo |-> 5, aries |-> 4],
     moon |-> [cancer |-> 5, taurus |-> 4],
     mercury |-> [gemini |-> 5, virgo |-> 5],
     venus |-> [taurus |-> 5, libra |-> 5],
     mars |-> [aries |-> 5, scorpio |-> 5],
     jupiter |-> [sagittarius |-> 5, pisces |-> 5],
     saturn |-> [capricorn |-> 5, aquarius |-> 5]]

\* the dignity with the sign score entered as ruler whatever it is
_calculate_planet_dignity_ruling_any(planet) ==
    LET name == lower_text(Join(planet.d["name"].s))
        sign == lower_text(Join(planet.d["sign"].s))
        planet_dignities == IF name \in DOMAIN dignity_map THEN dignity_map[name] ELSE <<>>
        sign_score == IF sign \in DOMAIN planet_dignities THEN planet_dignities[sign] ELSE 0
    IN  [planet |-> planet.d["name"], sign |-> planet.d["sign"],
         house |-> IF planet.d["house"].t = "null" \/ planet.d["house"].n = 0
                   THEN PyInt(1) ELSE planet.d["house"],
         ruler |-> sign_score,
         exalted |-> IF sign_score = 4 THEN 4 ELSE 0,
         triplicity |-> 0, term |-> 0, face |-> 0, detriment |-> 0, fall |-> 0,
         total_score |-> sign_score]

_calculate_planet_dignity(planet) ==
    LET name == lower_text(Join(planet.d["name"].s))
        sign == lower_text(Join(planet.d["sign"].s))
        planet_dignities == IF name \in DOMAIN dignity_map THEN dignity_map[name] ELSE <<>>
        sign_score == IF sign \in DOMAIN planet_dignities THEN planet_dignities[sign] ELSE 0
    IN  [planet |-> planet.d["name"], sign |-> planet.d["sign"],
         house |-> IF planet.d["house"].t = "null" \/ planet.d["house"].n = 0
                   THEN PyInt(1) ELSE planet.d["house"],
         ruler |-> IF sign_score = 5 THEN sign_score ELSE 0,
         exalted |-> IF sign_score = 4 THEN 4 ELSE 0,
         triplicity |-> 0, term |-> 0, face |-> 0, detriment |-> 0, fall |-> 0,
         total_score |-> sign_score]

calculate_dignities(chart_data) ==
    Return([i \in DOMAIN chart_data.d["planets"].l |->
               _calculate_planet_dignity(chart_data.d["planets"].l[i])])

\* the aspect types that have a canned interpretation
basic_interpretations == {"conjunction", "sextile", "square", "trine", "opposition"}

_interpret_single_aspect(aspect, detail_level) ==
    <<Join(aspect.d["planet1"].s),
      IF Join(aspect.d["aspect_type"].s) \in basic_interpretations
      THEN "canned:" \o Join(aspect.d["aspect_type"].s) ELSE Join(aspect.d["aspect_type"].s),
      Join(aspect.d["planet2"].s)>>

interpret_aspects(chart_data, detail_level) ==
    LET aspects == chart_data.d["aspects"].l
    IN  Return([interpretation_type |-> "aspects",
                summary |-> Len(aspects),
                detailed_analysis |-> [i \in DOMAIN aspects |->
                                          _interpret_single_aspect(aspects[i], detail_level)]])


\* app/config.py: the default orb of each aspect type, in degrees
ASPECT_ORBS ==
    [conjunction |-> PyFloat(8 * Scale), opposition |-> PyFloat(8 * Scale),
     trine |-> PyFloat(8 * Scale), square |-> PyFloat(8 * Scale),
     sextile |-> PyFloat(6 * Scale), quincunx |-> PyFloat(3 * Scale),
     semisextile |-> PyFloat(3 * Scale), semisquare |-> PyFloat(2 * Scale),
     sesquisquare |-> PyFloat(2 * Scale), quintile |-> PyFloat(2 * Scale),
     biquintile |-> PyFloat(2 * Scale)]

Abs(x) == IF x < 0 THEN 0 - x ELSE x

\* the major aspects, in the order they are tried
aspects_to_check ==
    << [degrees |-> 0, aspect_name |-> "conjunction"],
       [degrees |-> 60, aspect_name |-> "sextile"],
       [degrees |-> 90, aspect_name |-> "square"],
       [degrees |-> 120, aspect_name |-> "trine"],
       [degrees |-> 180, aspect_name |-> "opposition"] >>

\* the difference of the longitudes, not brought back under 180
diff_unwrapped(planet1, planet2) ==
    Abs(planet1.d["longitude"].n - planet2.d["longitude"].n)

\* diff = abs(planet1.longitude - planet2.longitude), and 360 - diff when
\* that is more than 180
diff(planet1, planet2) ==
    IF Abs(planet1.d["longitude"].n - planet2.d["longitude"].n) > 180 * Scale
    THEN 360 * Scale - Abs(planet1.d["longitude"].n - planet2.d["longitude"].n)
    ELSE Abs(planet1.d["longitude"].n - planet2.d["longitude"].n)

\* the orb lookup ignoring the table it is given
orb_of_ignoring_table(orbs, aspect_name) == 8 * Scale

\* orb = orbs.get(aspect_name, 8.0)
orb_of(orbs, aspect_name) == dict_get(orbs, aspect_name, PyFloat(8 * Scale)).n

\* the test of the loop with < in place of <=
aspects_in_orb_strict(planet1, planet2, orbs) ==
    {i \in DOMAIN aspects_to_check :
        Abs(diff(planet1, planet2) - aspects_to_check[i].degrees * Scale)
           < orb_of(orbs, aspects_to_check[i].aspect_name)}

\* the aspects of the loop whose test abs(diff - degrees) <= orb passes
aspects_in_orb(planet1, planet2, orbs) ==
    {i \in DOMAIN aspects_to_check :
        Abs(diff(planet1, planet2) - aspects_to_check[i].degrees * Scale)
           <= orb_of(orbs, aspects_to_check[i].aspect_name)}

\* the Aspect with applying set when the first body is not the slower one
aspect_at_applying_unless_slower(planet1, planet2, i) ==
    Aspect(Dict([planet1 |-> planet1.d["name"],
                 planet2 |-> planet2.d["name"],
                 aspect_type |-> Str(<<aspects_to_check[i].aspect_name>>),
                 orb |-> PyFloat(Abs(diff(planet1, planet2)
                                     - aspects_to_check[i].degrees * Scale)),
                 exact_orb |-> PyFloat(aspects_to_check[i].degrees * Scale),
                 applying |-> Bool(planet1.d["speed"].n >= planet2.d["speed"].n),
                 separating |-> Bool(planet1.d["speed"].n < planet2.d["speed"].n)])).val

\* the Aspect the loop returns at the i-th aspect it tries
aspect_at(planet1, planet2, i) ==
    Aspect(Dict([planet1 |-> planet1.d["name"],
                 planet2 |-> planet2.d["name"],
                 aspect_type |-> Str(<<aspects_to_check[i].aspect_name>>),
                 orb |-> PyFloat(Abs(diff(planet1, planet2)
                                     - aspects_to_check[i].degrees * Scale)),
                 exact_orb |-> PyFloat(aspects_to_check[i].degrees * Scale),
                 applying |-> Bool(planet1.d["speed"].n > planet2.d["speed"].n),
                 separating |-> Bool(planet1.d["speed"].n < planet2.d["speed"].n)])).val

\* the loop running to its end and keeping the last aspect in orb
_calculate_aspect_last_match(planet1, planet2, orbs) ==
    IF aspects_in_orb(planet1, planet2, orbs) = {} THEN Null
    ELSE aspect_at(planet1, planet2,
                   CHOOSE i \in aspects_in_orb(planet1, planet2, orbs) :
                      \A j \in aspects_in_orb(planet1, planet2, orbs) : i >= j)

\* the loop returns at the first aspect in orb; None when there is none
_calculate_aspect(planet1, planet2, orbs) ==
    IF aspects_in_orb(planet1, planet2, orbs) = {} THEN Null
    ELSE aspect_at(planet1, planet2,
                   CHOOSE i \in aspects_in_orb(planet1, planet2, orbs) :
                      \A j \in aspects_in_orb(planet1, planet2, orbs) : i <= j)

\* orbs = {**ASPECT_ORBS, **(custom_orbs or {})}
merged_orbs(custom_orbs) ==
    IF custom_orbs.t = "null" THEN ASPECT_ORBS
    ELSE [k \in DOMAIN ASPECT_ORBS \cup DOMAIN custom_orbs.d |->
             IF k \in DOMAIN custom_orbs.d THEN custom_orbs.d[k] ELSE ASPECT_ORBS[k]]

\* the pair the nested loops reach at their n-th turn: planet1 runs over
\* chart1.planets, and for each planet1 planet2 runs over chart2.planets
pair_aspect(planets1, planets2, orbs, n) ==
    _calculate_aspect(planets1[((n - 1) \div Len(planets2)) + 1],
                      planets2[((n - 1) % Len(planets2)) + 1], orbs)

\* the loops with chart2.planets outside and chart1.planets inside
_calculate_interaspects_second_chart_first(chart1, chart2, custom_orbs) ==
    List(SelectSeq([n \in 1..(Len(chart1.d["planets"].l) * Len(chart2.d["planets"].l)) |->
                       _calculate_aspect(
                           chart1.d["planets"].l[((n - 1) % Len(chart1.d["planets"].l)) + 1],
                           chart2.d["planets"].l[((n - 1) \div Len(chart1.d["planets"].l)) + 1],
                           merged_orbs(custom_orbs))],
                   LAMBDA aspect : aspect # Null))

\* interaspects: the aspects of the pairs in the order the loops reach them
_calculate_interaspects(chart1, chart2, custom_orbs) ==
    List(SelectSeq([n \in 1..(Len(chart1.d["planets"].l) * Len(chart2.d["planets"].l)) |->
                       pair_aspect(chart1.d["planets"].l, chart2.d["planets"].l,
                                   merged_orbs(custom_orbs), n)],
                   LAMBDA aspect : aspect # Null))

harmonious == {"trine", "sextile", "conjunction"}

challenging == {"square", "opposition"}

\* sum(1 for aspect in aspects if aspect.aspect_type in types)
count_of(aspects, types) ==
    Cardinality({i \in DOMAIN aspects : Show(aspects[i].d["aspect_type"]) \in types})

\* the score with an empty list rated as a list in balance
_calculate_compatibility_score_rating_empty(aspects) ==
    IF aspects = <<>> THEN PyFloat(50 * Scale)
    ELSE PyFloat(Max(0, Min(100 * Scale,
             (((count_of(aspects, harmonious) - count_of(aspects, challenging)) * Scale)
                 \div Len(aspects) + Scale) * 50)))

\* the score with the difference taken over the harmonious and challenging
\* aspects only
_calculate_compatibility_score_over_rated(aspects) ==
    IF count_of(aspects, harmonious \cup challenging) = 0 THEN PyFloat(0)
    ELSE PyFloat(Max(0, Min(100 * Scale,
             (((count_of(aspects, harmonious) - count_of(aspects, challenging)) * Scale)
                 \div count_of(aspects, harmonious \cup challenging) + Scale) * 50)))

\* raw_score = (positive_score - negative_score) / total_aspects, returned as
\* max(0, min(100, (raw_score + 1) * 50)); 0.0 for no aspects
_calculate_compatibility_score(aspects) ==
    IF aspects = <<>> THEN PyFloat(0)
    ELSE PyFloat(Max(0, Min(100 * Scale,
             (((count_of(aspects, harmonious) - count_of(aspects, challenging)) * Scale)
                 \div Len(aspects) + Scale) * 50)))

----------------------------------------------------------------------------
(* Protocol models (app/models/mcp.py) *)

\* MCPProtocolVersion: the single supported value
MCPProtocolVersion == {"2024-11-05"}

V1 == Str(<<"2024-11-05">>)

\* the text of a str value
Text(v) == Show(v)

ClientCapabilities(kwargs) ==
    IF FieldsOk(kwargs, [experimental |-> Opt("optdict"), roots |-> Opt("any"),
                         sampling |-> Opt("optdict")])
    THEN Return(kwargs) ELSE PydanticError(<<"ClientCapabilities">>)

InitializeRequest(kwargs) ==
    IF /\ FieldsOk(kwargs, [protocolVersion |-> Req("str"), capabilities |-> Req("dict"),
                            clientInfo |-> Req("dict")])
       /\ StrIn(kwargs.d["protocolVersion"], MCPProtocolVersion)
       /\ ClientCapabilities(kwargs.d["capabilities"]).ok
       /\ \A k \in DOMAIN kwargs.d["clientInfo"].d : IsStr(kwargs.d["clientInfo"].d[k])
    THEN Return(kwargs) ELSE PydanticError(<<"InitializeRequest">>)

\* ToolsListRequest, ResourcesListRequest, PromptsListRequest
ListRequest(kwargs, what) ==
    IF FieldsOk(kwargs, [cursor |-> Opt("optstr")])
    THEN Return(WithDefaults(kwargs, [cursor |-> Null]))
    ELSE PydanticError(<<what>>)

ToolsListRequest(kwargs) == ListRequest(kwargs, "ToolsListRequest")

ResourcesListRequest(kwargs) == ListRequest(kwargs, "ResourcesListRequest")

PromptsListRequest(kwargs) == ListRequest(kwargs, "PromptsListRequest")

ToolCallRequest(kwargs) ==
    IF FieldsOk(kwargs, [name |-> Req("str"), arguments |-> Opt("dict")])
    THEN Return(WithDefaults(kwargs, [arguments |-> Dict(EmptyDict)]))
    ELSE PydanticError(<<"ToolCallRequest">>)

ResourceReadRequest(kwargs) ==
    IF FieldsOk(kwargs, [uri |-> Req("str")])
    THEN Return(kwargs) ELSE PydanticError(<<"ResourceReadRequest">>)

PromptGetRequest(kwargs) ==
    IF FieldsOk(kwargs, [name |-> Req("str"), arguments |-> Opt("optdict")])
    THEN Return(WithDefaults(kwargs, [arguments |-> Dict(EmptyDict)]))
    ELSE PydanticError(<<"PromptGetRequest">>)

ToolResult(content, isError) == [content |-> content, isError |-> isError]

ToolCallResponse(result) == [result |-> result]

MCPError(code, message) == [code |-> code, message |-> message, data |-> Null]

\* JSONRPCRequest fields other than params: jsonrpc a text, id a text, an
\* integer or None, method a text
JSONRPCRequest(kwargs) ==
    IF /\ FieldsOk(kwargs, [jsonrpc |-> Opt("str"), id |-> Opt("any"), method |-> Req("str"),
                            params |-> Opt("optdict")])
       /\ Has(kwargs, "id") => (IsStr(kwargs.d["id"]) \/ kwargs.d["id"].t \in {"int", "null"})
    THEN Return(WithDefaults(kwargs, [jsonrpc |-> Str(<<"2.0">>), id |-> Null, params |-> Null]))
    ELSE PydanticError(<<"JSONRPCRequest">>)

\* a JSONRPCResponse that leaves the id at its default
JSONRPCResponse_without_id(id, result, error) ==
    [jsonrpc |-> "2.0", id |-> [t |-> "null"], result |-> result, error |-> error]

JSONRPCResponse(id, result, error) ==
    [jsonrpc |-> "2.0", id |-> id, result |-> result, error |-> error]

----------------------------------------------------------------------------
(* Tool executors (app/routes/mcp.py) *)

\* Model(**arguments), then the result of the call on the model, which is
\* not made when the model cannot be built
Execute(request, result) == IF ~request.ok THEN request ELSE result

execute_generate_natal_chart(arguments, prov) ==
    Execute(NatalChartRequest(arguments),
            generate_natal_chart(NatalChartRequest(arguments).val, prov))

execute_generate_progressed_chart(arguments, prov) ==
    Execute(ProgressedChartRequest(arguments),
            generate_progressed_chart(ProgressedChartRequest(arguments).val, prov))

execute_generate_solar_return(arguments, prov) ==
    Execute(SolarReturnRequest(arguments),
            generate_solar_return(SolarReturnRequest(arguments).val, prov))

execute_generate_composite_chart(arguments, prov) ==
    Execute(CompositeChartRequest(arguments),
            generate_composite_chart(CompositeChartRequest(arguments).val, prov))

execute_calculate_synastry(arguments, prov) ==
    Execute(SynastryRequest(arguments), calculate_synastry(SynastryRequest(arguments).val, prov))

execute_get_transits(arguments, prov) ==
    LET transits == Execute(TransitsRequest(arguments),
                            get_transits(TransitsRequest(arguments).val, prov))
    IN  IF transits.ok THEN Return(Dict([transits |-> transits.val])) ELSE transits

\* ChartData(**arguments["chart_data"])
chart_data_argument(arguments) ==
    IF ~Has(arguments, "chart_data") THEN Raise("KeyError", <<"'chart_data'">>)
    ELSE IF ~IsDict(arguments.d["chart_data"])
    THEN Raise("TypeError", <<"argument after ** must be a mapping">>)
    ELSE ChartData(arguments.d["chart_data"])

execute_interpret_aspects(arguments, prov) ==
    Execute(chart_data_argument(arguments),
            interpret_aspects(chart_data_argument(arguments).val,
                              dict_get(arguments.d, "detail_level", Str(<<"medium">>))))

execute_calculate_dignities(arguments, prov) ==
    LET dignities == Execute(chart_data_argument(arguments),
                             calculate_dignities(chart_data_argument(arguments).val))
    IN  IF dignities.ok THEN Return(Dict([dignities |-> dignities.val])) ELSE dignities

\* the executor table without an entry for calculate_dignities
tool_executors_without_dignities ==
    {"generate_natal_chart", "generate_progressed_chart", "generate_solar_return",
     "generate_composite_chart", "calculate_synastry", "get_transits",
     "interpret_aspects"}

tool_executors ==
    {"generate_natal_chart", "generate_progressed_chart", "generate_solar_return",
     "generate_composite_chart", "calculate_synastry", "get_transits",
     "interpret_aspects", "calculate_dignities"}

execute_tool(tool_name, arguments, prov) ==
    IF tool_name \notin tool_executors THEN ToolNotFoundError(tool_name)
    ELSE CASE tool_name = "generate_natal_chart" -> execute_generate_natal_chart(arguments, prov)
           [] tool_name = "generate_progressed_chart" -> execute_generate_progressed_chart(arguments, prov)
           [] tool_name = "generate_solar_return" -> execute_generate_solar_return(arguments, prov)
           [] tool_name = "generate_composite_chart" -> execute_generate_composite_chart(arguments, prov)
           [] tool_name = "calculate_synastry" -> execute_calculate_synastry(arguments, prov)
           [] tool_name = "get_transits" -> execute_get_transits(arguments, prov)
           [] tool_name = "interpret_aspects" -> execute_interpret_aspects(arguments, prov)
           [] tool_name = "calculate_dignities" -> execute_calculate_dignities(arguments, prov)


----------------------------------------------------------------------------
(* Route handlers (app/routes/mcp.py) *)

\* get_settings(): the fields initialize reads
Settings == [mcp_server_name |-> "immanuel-astrology", mcp_server_version |-> "1.0.0"]

\* the default of the settings parameter when the route function is called
\* without it: the Depends marker itself
Depends == [dependency |-> "get_settings"]

\* the try block of initialize_mcp
initialize_mcp_try(request, settings) ==
    IF request.d["protocolVersion"] # V1
    THEN MCPProtocolError(<<"Unsupported protocol version: ", Text(request.d["protocolVersion"])>>)
    ELSE IF "mcp_server_name" \notin DOMAIN settings
    THEN Raise("AttributeError", <<"'Depends' object has no attribute 'mcp_server_name'">>)
    ELSE Return([protocolVersion |-> V1,
                 capabilities |-> get_server_capabilities,
                 serverInfo |-> [name |-> settings.mcp_server_name,
                                 version |-> settings.mcp_server_version],
                 instructions |-> "Welcome to the Immanuel MCP Server!"])

initialize_mcp(request, settings) ==
    LET r == initialize_mcp_try(request, settings)
    IN  IF r.ok THEN r
        ELSE HTTPException(500, <<"Initialization failed: ">> \o str_exc(r))

list_tools_endpoint(request) ==
    Return([tools |-> list_tools(request.d["cursor"]), nextCursor |-> Null])

\* the try block of call_tool up to the result data
call_tool_try(request, prov) ==
    LET name == Text(request.d["name"])
        tool == get_tool(name)
        sanitized_args == sanitize_input(request.d["arguments"])
    IN  Then(tool,
        Then(sanitized_args,
        Then(validate_mcp_tool_arguments(name, sanitized_args.val),
             execute_tool(name, sanitized_args.val, prov))))

\* call_tool without the clause that catches ToolNotFoundError: the lookup
\* failure leaves the route as a 404
call_tool_propagating_not_found(request, prov) ==
    LET result_data == call_tool_try(request, prov)
    IN  IF result_data.ok
        THEN Return(ToolCallResponse(ToolResult(
                 <<[type |-> "text",
                    text |-> <<"Tool '", Text(request.d["name"]), "' executed successfully">>,
                    data |-> result_data.val]>>, FALSE)))
        ELSE IF result_data.exc = "ToolNotFoundError"
        THEN HTTPException(404, str_exc(result_data))
        ELSE Return(ToolCallResponse(ToolResult(
                 <<[type |-> "text",
                    text |-> <<"Tool execution failed: ">> \o str_exc(result_data)]>>, TRUE)))

\* call_tool with only the (ToolNotFoundError, ValidationError) clause: any
\* other exception leaves the route
call_tool_without_catch_all(request, prov) ==
    LET result_data == call_tool_try(request, prov)
    IN  IF result_data.ok
        THEN Return(ToolCallResponse(ToolResult(
                 <<[type |-> "text",
                    text |-> <<"Tool '", Text(request.d["name"]), "' executed successfully">>,
                    data |-> result_data.val]>>, FALSE)))
        ELSE IF result_data.exc \in {"ToolNotFoundError", "ValidationError"}
        THEN Return(ToolCallResponse(ToolResult(
                 <<[type |-> "text",
                    text |-> <<"Tool execution failed: ">> \o str_exc(result_data)]>>, TRUE)))
        ELSE result_data

\* both except clauses build the same result
\* the response of call_tool to the outcome of its try block: the result
\* data as content, or either except clause's error result
call_tool_response(request, result_data) ==
    IF result_data.ok
    THEN Return(ToolCallResponse(ToolResult(
             <<[type |-> "text",
                text |-> <<"Tool '", Text(request.d["name"]), "' executed successfully">>,
                data |-> result_data.val]>>, FALSE)))
    ELSE Return(ToolCallResponse(ToolResult(
             <<[type |-> "text",
                text |-> <<"Tool execution failed: ">> \o str_exc(result_data)]>>, TRUE)))

call_tool(request, prov) == call_tool_response(request, call_tool_try(request, prov))

list_resources_endpoint(request) ==
    Return([resources |-> list_resources(request.d["cursor"]), nextCursor |-> Null])

\* read_resource without the ResourceNotFoundError clause
read_resource_without_not_found_clause(request) ==
    LET content_data == get_resource_content(Text(request.d["uri"]))
    IN  IF content_data.ok
        THEN Return([contents |-> <<[uri |-> request.d["uri"], mimeType |-> "application/json",
                                     text |-> content_data.val]>>])
        ELSE HTTPException(500, <<"Failed to read resource: ">> \o str_exc(content_data))

read_resource(request) ==
    LET content_data == get_resource_content(Text(request.d["uri"]))
    IN  IF content_data.ok
        THEN Return([contents |-> <<[uri |-> request.d["uri"], mimeType |-> "application/json",
                                     text |-> content_data.val]>>])
        ELSE IF content_data.exc = "ResourceNotFoundError"
        THEN HTTPException(404, str_exc(content_data))
        ELSE HTTPException(500, <<"Failed to read resource: ">> \o str_exc(content_data))

list_prompts_endpoint(request) ==
    Return([prompts |-> list_prompts(request.d["cursor"]), nextCursor |-> Null])

\* the arguments are sanitized before the prompt is looked up
get_prompt(request) ==
    LET arguments == IF request.d["arguments"].t = "null" \/ request.d["arguments"].d = <<>>
                     THEN Dict(EmptyDict) ELSE request.d["arguments"]
        sanitized_args == sanitize_input(arguments)
        messages == Then(sanitized_args,
                         get_prompt_content(Text(request.d["name"]), sanitized_args.val.d))
    IN  IF messages.ok
        THEN Return([description |-> <<"Formatted prompt for ", Text(request.d["name"])>>,
                     messages |-> messages.val])
        ELSE IF messages.exc = "PromptNotFoundError"
        THEN HTTPException(404, str_exc(messages))
        ELSE HTTPException(500, <<"Failed to get prompt: ">> \o str_exc(messages))

\* the handle_jsonrpc_* functions: build the request model from the params
\* and call the route function directly, initialize without its settings
handle_jsonrpc_initialize(params) ==
    Execute(InitializeRequest(params), initialize_mcp(InitializeRequest(params).val, Depends))

handle_jsonrpc_tools_list(params) == Execute(ToolsListRequest(params),
                list_tools_endpoint(ToolsListRequest(params).val))

handle_jsonrpc_tools_call(params, prov) ==
    Execute(ToolCallRequest(params), call_tool(ToolCallRequest(params).val, prov))

handle_jsonrpc_resources_list(params) ==
    Execute(ResourcesListRequest(params), list_resources_endpoint(ResourcesListRequest(params).val))

handle_jsonrpc_resources_read(params) == Execute(ResourceReadRequest(params),
                read_resource(ResourceReadRequest(params).val))

handle_jsonrpc_prompts_list(params) == Execute(PromptsListRequest(params),
                list_prompts_endpoint(PromptsListRequest(params).val))

handle_jsonrpc_prompts_get(params) == Execute(PromptGetRequest(params),
                get_prompt(PromptGetRequest(params).val))

method_handlers ==
    {"initialize", "tools/list", "tools/call", "resources/list", "resources/read",
     "prompts/list", "prompts/get"}

\* the try block of jsonrpc_handler
jsonrpc_handler_try(request, prov) ==
    LET method == Text(request.d["method"])
        params == IF request.d["params"].t = "null" THEN Dict(EmptyDict) ELSE request.d["params"]
    IN  IF method \notin method_handlers
        THEN MCPProtocolError(<<"Unknown method: ", method>>)
        ELSE CASE method = "initialize" -> handle_jsonrpc_initialize(params)
               [] method = "tools/list" -> handle_jsonrpc_tools_list(params)
               [] method = "tools/call" -> handle_jsonrpc_tools_call(params, prov)
               [] method = "resources/list" -> handle_jsonrpc_resources_list(params)
               [] method = "resources/read" -> handle_jsonrpc_resources_read(params)
               [] method = "prompts/list" -> handle_jsonrpc_prompts_list(params)
               [] method = "prompts/get" -> handle_jsonrpc_prompts_get(params)

\* jsonrpc_handler answering a method it has no handler for with an empty
\* result
jsonrpc_handler_answering_unknown(request, prov) ==
    LET result == jsonrpc_handler_try(request, prov)
    IN  IF result.ok
        THEN Return(JSONRPCResponse(request.d["id"], result.val, Null))
        ELSE IF result.exc = "MCPProtocolError"
        THEN Return(JSONRPCResponse(request.d["id"], EmptyDict, Null))
        ELSE Return(JSONRPCResponse(request.d["id"], Null,
                                    MCPError(-32603, str_exc(result))))

\* the envelope jsonrpc_handler answers the outcome of its try block with
jsonrpc_response(request, result) ==
    IF result.ok
    THEN Return(JSONRPCResponse(request.d["id"], result.val, Null))
    ELSE Return(JSONRPCResponse(request.d["id"], Null, MCPError(-32603, str_exc(result))))

jsonrpc_handler(request, prov) == jsonrpc_response(request, jsonrpc_handler_try(request, prov))


----------------------------------------------------------------------------
(* The HTTP transport (FastAPI) and the requests the model sends *)

\* a route: the body is validated into the request model (422 when that
\* fails), the route function runs, an HTTPException becomes its status
http_endpoint(model, result) ==
    LET r == Execute(model, result)
    IN  IF ~model.ok THEN [status |-> 422, body |-> [detail |-> model.msg]]
        ELSE IF r.ok THEN [status |-> 200, body |-> r.val]
        ELSE [status |-> IF r.code # 0 THEN r.code ELSE 500,
              body |-> [error |-> r.exc, message |-> r.msg]]

Request(endpoint, body) == [endpoint |-> endpoint, body |-> body]

Envelope(method, params, id) ==
    Request("/jsonrpc", Dict([jsonrpc |-> Str(<<"2.0">>), id |-> PyInt(id),
                              method |-> Str(<<method>>), params |-> params]))

\* what the ephemeris provider does when asked for a chart: it raises, it
\* returns a chart with one body (sun, longitude 120.5), or it returns a
\* chart whose objects the conversion cannot read
ProviderOutcomes ==
    { [t |-> "raise", shape |-> "none", objects |-> <<>>, houses |-> <<>>, aspects |-> <<>>],
      [t |-> "chart", shape |-> "conforming",
       objects |-> << Dict([name |-> Str(<<"sun">>), longitude |-> PyFloat(1205000),
                           latitude |-> PyFloat(0), distance |-> PyFloat(0),
                           speed |-> PyFloat(0), sign |-> Str(<<"Leo">>), house |-> Null]) >>,
       houses |-> <<>>, aspects |-> <<>>],
      [t |-> "chart", shape |-> "malformed", objects |-> <<>>, houses |-> <<>>, aspects |-> <<>>] }

\* the requests that never reach the provider are answered the same whatever
\* it would do
NoProvider == CHOOSE prov \in ProviderOutcomes : prov.t = "raise"

BirthDateTime == Str(<<"1990-05-15 14:30:00">>)

\* tests/conftest.py sample_natal_request: "32n43", "117w09"
Lat32n43 == Str(<<"3", "2", "n", "4", "3">>)

Lon117w09 == Str(<<"1", "1", "7", "w", "0", "9">>)

NumericCoordinates == Dict([latitude |-> PyFloat(327200), longitude |-> PyFloat(-1171500)])

TextCoordinates == Dict([latitude |-> Lat32n43, longitude |-> Lon117w09])

SamplePlanet ==
    Dict([name |-> Str(<<"Sun">>), longitude |-> PyFloat(1205000), latitude |-> PyFloat(0),
          distance |-> PyFloat(10000), speed |-> PyFloat(10000), sign |-> Str(<<"Leo">>),
          house |-> PyInt(5)])

SampleAspect ==
    Dict([planet1 |-> Str(<<"Sun">>), planet2 |-> Str(<<"Moon">>),
          aspect_type |-> Str(<<"trine">>), orb |-> PyFloat(25000),
          exact_orb |-> PyFloat(1200000), applying |-> Bool(TRUE), separating |-> Bool(FALSE)])

sample_chart_data(coordinates) ==
    Dict([chart_type |-> Str(<<"natal">>), date_time |-> BirthDateTime,
          coordinates |-> coordinates, timezone |-> Str(<<"UTC">>),
          house_system |-> Str(<<"placidus">>), planets |-> List(<<SamplePlanet>>),
          houses |-> List(<<>>), aspects |-> List(<<SampleAspect>>)])

TooLong == LongStr(<<>>, MaxInputLen + 1)

ToolCall(name, arguments) == Dict([name |-> Str(<<name>>), arguments |-> arguments])

sample_natal_request ==
    Dict([date_time |-> BirthDateTime, latitude |-> Lat32n43, longitude |-> Lon117w09])

sample_person == Dict([date_time |-> BirthDateTime, coordinates |-> NumericCoordinates])

ToolCallBodies ==
    { ToolCall("invalid_tool_name", Dict(EmptyDict)),
      ToolCall("generate_natal_chart", sample_natal_request),
      ToolCall("generate_natal_chart", sample_person),
      ToolCall("generate_natal_chart",
               Dict([date_time |-> TooLong, latitude |-> Lat32n43, longitude |-> Lon117w09])),
      ToolCall("generate_progressed_chart",
               Dict([date_time |-> BirthDateTime, coordinates |-> NumericCoordinates,
                     natal_chart |-> sample_chart_data(NumericCoordinates),
                     progression_date |-> Str(<<"2024-01-01 12:00:00">>)])),
      ToolCall("generate_solar_return",
               Dict([birth_data |-> sample_natal_request, return_year |-> PyInt(2024)])),
      ToolCall("generate_composite_chart",
               Dict([person1 |-> sample_person, person2 |-> sample_person])),
      ToolCall("calculate_synastry",
               Dict([person1 |-> sample_natal_request, person2 |-> sample_natal_request])),
      ToolCall("get_transits",
               Dict([natal_chart |-> sample_chart_data(NumericCoordinates),
                     transit_date |-> Str(<<"2024-01-01 12:00:00">>)])),
      ToolCall("interpret_aspects",
               Dict([chart_data |-> sample_chart_data(NumericCoordinates),
                     detail_level |-> Str(<<"basic">>)])),
      ToolCall("calculate_dignities",
               Dict([chart_data |-> sample_chart_data(NumericCoordinates)])),
      Dict([name |-> Str(<<"get_transits">>), arguments |-> List(<<>>)]) }


sample_mcp_initialize_request(version) ==
    Dict([protocolVersion |-> Str(<<version>>),
          capabilities |-> Dict([experimental |-> Dict(EmptyDict)]),
          clientInfo |-> Dict([name |-> Str(<<"test-client">>)])])

InitializeBodies ==
    {sample_mcp_initialize_request("2024-11-05"), sample_mcp_initialize_request("1.0.0")}

ListBodies == {Dict(EmptyDict), Dict([cursor |-> Str(<<"page-2">>)])}

ListedUris == {resources_definitions[i].uri : i \in DOMAIN resources_definitions}

ListedPrompts == {prompts_definitions[i].name : i \in DOMAIN prompts_definitions}

ResourceReadBodies == {Dict([uri |-> Str(<<u>>)]) : u \in ListedUris \cup {"nonexistent"}}

PromptGetBodies ==
    {Dict([name |-> Str(<<n>>)]) : n \in ListedPrompts \cup {"nonexistent"}}
    \cup {Dict([name |-> Str(<<n>>), arguments |-> Dict([detail_level |-> TooLong])]) :
            n \in {"natal_chart_interpretation", "nonexistent"}}
    \cup {Dict([name |-> Str(<<"transit_report">>),
                arguments |-> Dict([time_period |-> Str(<<" ", "<", "next month", ">", " ">>)])])}

DirectRequests ==
    {Request("/initialize", b) : b \in InitializeBodies}
    \cup {Request("/tools/list", b) : b \in ListBodies}
    \cup {Request("/tools/call", b) : b \in ToolCallBodies}
    \cup {Request("/resources/list", Dict(EmptyDict)), Request("/prompts/list", Dict(EmptyDict))}
    \cup {Request("/resources/read", b) : b \in ResourceReadBodies}
    \cup {Request("/prompts/get", b) : b \in PromptGetBodies}

\* <<method, params>> of the envelopes
EnvelopeCalls ==
    { <<"initialize", sample_mcp_initialize_request("2024-11-05")>>,
      <<"initialize", sample_mcp_initialize_request("1.0.0")>>,
      <<"tools/list", Null>>,
      <<"tools/call", ToolCall("invalid_tool_name", Dict(EmptyDict))>>,
      <<"tools/call", ToolCall("get_transits",
                               Dict([natal_chart |-> sample_chart_data(NumericCoordinates),
                                     transit_date |-> Str(<<"2024-01-01 12:00:00">>)]))>>,
      <<"resources/list", Dict(EmptyDict)>>,
      <<"resources/read", Dict([uri |-> Str(<<"astrological_objects">>)])>>,
      <<"resources/read", Dict([uri |-> Str(<<"nonexistent">>)])>>,
      <<"prompts/list", Dict([cursor |-> Str(<<"page-2">>)])>>,
      <<"prompts/get", Dict([name |-> Str(<<"transit_report">>)])>>,
      <<"prompts/get", Dict([name |-> Str(<<"nonexistent">>)])>>,
      <<"invalid/method", Dict(EmptyDict)>> }

EnvelopeRequests == {Envelope(c[1], c[2], id) : c \in EnvelopeCalls, id \in 1..MaxId}

Requests == DirectRequests \cup EnvelopeRequests

NoResponse == Null

----------------------------------------------------------------------------
(* The server as a state machine *)

\* MCPService.__init__ builds the three catalogs; nothing has been asked
Init ==
    /\ tools = _setup_tools
    /\ resources = _setup_resources
    /\ prompts = _setup_prompts
    /\ pending = {}
    /\ last = NoResponse

\* a client sends a request
Receive(req) ==
    /\ Cardinality(pending) < MaxPending
    /\ req \notin pending
    /\ pending' = pending \cup {req}
    /\ UNCHANGED <<tools, resources, prompts, last>>

\* the client goes away before the request is handled
Cancel(req) ==
    /\ req \in pending
    /\ pending' = pending \ {req}
    /\ UNCHANGED <<tools, resources, prompts, last>>

\* a handler runs to its response; none of them writes the catalogs
Respond(req, prov, resp) ==
    /\ req \in pending
    /\ pending' = pending \ {req}
    /\ last' = [req |-> req, prov |-> prov, resp |-> resp]
    /\ UNCHANGED <<tools, resources, prompts>>

InitializeMcp(req) ==
    /\ req.endpoint = "/initialize"
    /\ Respond(req, NoProvider,
               http_endpoint(InitializeRequest(req.body),
                             initialize_mcp(InitializeRequest(req.body).val, Settings)))

\* a tools/list that consumes the catalog it lists
ListTools_draining(req) ==
    /\ req.endpoint = "/tools/list"
    /\ req \in pending
    /\ pending' = pending \ {req}
    /\ last' = [req |-> req, prov |-> NoProvider,
                resp |-> http_endpoint(ToolsListRequest(req.body),
                                       list_tools_endpoint(ToolsListRequest(req.body).val))]
    /\ tools' = <<>>
    /\ UNCHANGED <<resources, prompts>>

ListTools(req) ==
    /\ req.endpoint = "/tools/list"
    /\ Respond(req, NoProvider, http_endpoint(ToolsListRequest(req.body),
                list_tools_endpoint(ToolsListRequest(req.body).val)))

\* a tools/call that registers the name it was asked for when the catalog
\* does not have it
CallTool_registering(req, prov) ==
    /\ req.endpoint = "/tools/call"
    /\ req \in pending
    /\ pending' = pending \ {req}
    /\ last' = [req |-> req, prov |-> prov,
                resp |-> http_endpoint(ToolCallRequest(req.body),
                                       call_tool(ToolCallRequest(req.body).val, prov))]
    /\ tools' = IF ToolCallRequest(req.body).ok /\ Text(req.body.d["name"]) \notin Keys(tools)
                THEN DictSet(tools, Text(req.body.d["name"]),
                             [name |-> Text(req.body.d["name"]), required |-> <<>>])
                ELSE tools
    /\ UNCHANGED <<resources, prompts>>

CallTool(req, prov) ==
    /\ req.endpoint = "/tools/call"
    /\ Respond(req, prov,
               http_endpoint(ToolCallRequest(req.body),
                             call_tool(ToolCallRequest(req.body).val, prov)))

ListResources(req) ==
    /\ req.endpoint = "/resources/list"
    /\ Respond(req, NoProvider,
               http_endpoint(ResourcesListRequest(req.body),
                             list_resources_endpoint(ResourcesListRequest(req.body).val)))

ReadResource(req) ==
    /\ req.endpoint = "/resources/read"
    /\ Respond(req, NoProvider, http_endpoint(ResourceReadRequest(req.body),
                read_resource(ResourceReadRequest(req.body).val)))

ListPrompts(req) ==
    /\ req.endpoint = "/prompts/list"
    /\ Respond(req, NoProvider,
               http_endpoint(PromptsListRequest(req.body),
                             list_prompts_endpoint(PromptsListRequest(req.body).val)))

GetPrompt(req) ==
    /\ req.endpoint = "/prompts/get"
    /\ Respond(req, NoProvider, http_endpoint(PromptGetRequest(req.body),
                get_prompt(PromptGetRequest(req.body).val)))

\* only tools/call asks the provider
JsonRpc(req, prov) ==
    /\ req.endpoint = "/jsonrpc"
    /\ (req.body.d["method"] # Str(<<"tools/call">>)) => prov = NoProvider
    /\ Respond(req, prov,
               http_endpoint(JSONRPCRequest(req.body),
                             jsonrpc_handler(JSONRPCRequest(req.body).val, prov)))

Next ==
    \/ \E req \in Requests : Receive(req)
    \/ \E req \in pending : Cancel(req)
    \/ \E req \in pending : InitializeMcp(req)
    \/ \E req \in pending : ListTools(req)
    \/ \E req \in pending, prov \in ProviderOutcomes : CallTool(req, prov)
    \/ \E req \in pending : ListResources(req)
    \/ \E req \in pending : ReadResource(req)
    \/ \E req \in pending : ListPrompts(req)
    \/ \E req \in pending : GetPrompt(req)
    \/ \E req \in pending, prov \in ProviderOutcomes : JsonRpc(req, prov)

Spec == Init /\ [][Next]_vars


----------------------------------------------------------------------------
(* The computation engine: the methods of ChartService applied to inputs *)

\* a call of a method of the engine and what it returned
Call(method, args, result) ==
    /\ last = NoResponse
    /\ last' = [req |-> Request(method, args), prov |-> NoProvider, resp |-> result]
    /\ UNCHANGED <<tools, resources, prompts, pending>>

\* the caller takes the result
Take ==
    /\ last # NoResponse
    /\ last' = NoResponse
    /\ UNCHANGED <<tools, resources, prompts, pending>>

\* whether the last step was a call of the method
Called(method) == last # NoResponse /\ last.req.endpoint = method

\* a position: only the name, the longitude and the speed are read
Position(name, longitude, speed) ==
    PlanetPosition(Dict([name |-> Str(<<name>>), longitude |-> PyFloat(longitude),
                         latitude |-> PyFloat(0), distance |-> PyFloat(Scale),
                         speed |-> PyFloat(speed), sign |-> Str(<<"Leo">>)])).val

\* longitudes in degrees: pairs 90 apart on both sides of the 0/360 seam,
\* pairs in no aspect, pairs near an aspect
Longitudes == {0, 2, 45, 80, 90, 170, 350, 358}

Speeds == {0, Scale}

\* orb tables: the defaults, none given, every orb 0, the widest sextile orb
\* validate_aspect_orbs lets through, overlapping wide orbs
OrbTables ==
    { ASPECT_ORBS,
      EmptyDict,
      [conjunction |-> PyFloat(0), sextile |-> PyFloat(0), square |-> PyFloat(0),
       trine |-> PyFloat(0), opposition |-> PyFloat(0)],
      [sextile |-> PyFloat(MaxOrb * Scale)],
      [square |-> PyFloat(25 * Scale), trine |-> PyFloat(25 * Scale)] }

CalculateAspect(planet1, planet2, orbs) ==
    Call("_calculate_aspect", <<planet1, planet2, orbs>>,
         _calculate_aspect(planet1, planet2, orbs))

\* aspect lists of up to MaxAspects aspects, of the five major types and one
\* that is neither harmonious nor challenging
AspectTypes == {"conjunction", "sextile", "square", "trine", "opposition", "quincunx"}

AspectOf(type) ==
    Aspect(Dict([planet1 |-> Str(<<"sun">>), planet2 |-> Str(<<"moon">>),
                 aspect_type |-> Str(<<type>>), orb |-> PyFloat(0), exact_orb |-> PyFloat(0),
                 applying |-> Bool(FALSE), separating |-> Bool(FALSE)])).val

AspectLists ==
    UNION {{[i \in 1..n |-> AspectOf(types[i])] : types \in [1..n -> AspectTypes]} :
              n \in 0..MaxAspects}

CalculateCompatibilityScore(aspects) ==
    Call("_calculate_compatibility_score", aspects, _calculate_compatibility_score(aspects))

\* charts of the provider: no, one or two bodies in either order, one of
\* them without a longitude; no or two houses; no or two aspects
ChartObject(name, longitude) ==
    Dict([name |-> Str(<<name>>), longitude |-> PyFloat(longitude * Scale),
          sign |-> Str(<<"Leo">>)])

ChartObjects ==
    { <<>>,
      <<ChartObject("sun", 120)>>,
      <<ChartObject("sun", 120), ChartObject("moon", 45)>>,
      <<ChartObject("moon", 45), ChartObject("sun", 120)>>,
      <<ChartObject("sun", 120), Dict([name |-> Str(<<"node">>)]), ChartObject("moon", 45)>> }

ChartHouse(number, longitude) ==
    Dict([number |-> PyInt(number), longitude |-> PyFloat(longitude * Scale)])

ChartHouses ==
    { <<>>,
      <<ChartHouse(1, 0), ChartHouse(2, 30)>>,
      <<ChartHouse(2, 30), ChartHouse(1, 0)>> }

ChartAspect(active, passive, type) ==
    Dict([active |-> Dict([name |-> Str(<<active>>)]), passive |-> Dict([name |-> Str(<<passive>>)]),
          type |-> Str(<<type>>), orb |-> PyFloat(Scale)])

ChartAspects ==
    { <<>>,
      <<ChartAspect("sun", "moon", "trine"), ChartAspect("moon", "sun", "square")>>,
      <<ChartAspect("moon", "sun", "square"), ChartAspect("sun", "moon", "trine")>> }

Charts ==
    {[t |-> "chart", shape |-> "conforming", objects |-> o, houses |-> h, aspects |-> a] :
        o \in ChartObjects, h \in ChartHouses, a \in ChartAspects}

ConvertImmanuelChart(chart) ==
    Call("_convert_immanuel_chart", <<chart, NatalChartRequest(sample_person).val>>,
         _convert_immanuel_chart(chart, "natal", NatalChartRequest(sample_person).val))

\* a text, one character to the atom
Chars(text) == Str([i \in 1..Len(text) |-> SubSeq(text, i, i)])

\* coordinates: numbers in and out of range, degree-direction-minutes texts
\* in each direction, in capitals, with blanks around, out of range, decimal
\* texts, texts that are neither, degrees and a direction without minutes
CoordinateInputs ==
    { PyFloat(327167), PyFloat(-1171500), PyInt(45), PyFloat(200 * Scale),
      Chars("32n43"), Chars("32S43"), Chars("117w09"), Chars("117E09"), Chars(" 32n43 "),
      Chars("95n00"), Chars("32.7167"), Chars("-117.15"), Chars("n43"), Chars("north"),
      Chars(""), Chars("32n") }

ConvertCoordinates(lat, lon) ==
    Call("_convert_coordinates", <<lat, lon>>, _convert_coordinates(lat, lon))

\* bodies in and out of the dignity table, in signs they rule, are exalted
\* in, or neither, with and without a house
BodyNames == {"Sun", "sun", "moon", "mars", "venus", "pluto"}

SignNames == {"Leo", "leo", "Aries", "aries", "taurus", "cancer", "scorpio", "gemini"}

BodyIn(name, sign, house) ==
    PlanetPosition(Dict([name |-> Str(<<name>>), longitude |-> PyFloat(0),
                         latitude |-> PyFloat(0), distance |-> PyFloat(Scale),
                         speed |-> PyFloat(Scale), sign |-> Str(<<sign>>),
                         house |-> house])).val

CalculatePlanetDignity(planet) ==
    Call("_calculate_planet_dignity", planet, _calculate_planet_dignity(planet))

\* the positions charts are made of: bodies in conjunction, 67 degrees apart
\* (7 from a sextile), and square
PlanetChoices ==
    { Position("sun", 0, 0), Position("moon", 67 * Scale, Scale), Position("mars", 90 * Scale, 0) }

PlanetLists == UNION {[1..n -> PlanetChoices] : n \in 0..MaxPlanets}

\* a chart as far as _calculate_interaspects reads it
ChartOf(planets) == Dict([chart_type |-> Str(<<"natal">>), planets |-> List(planets)])

\* no custom orbs, an empty table, a table that names some types
CustomOrbs ==
    { Null, Dict(EmptyDict),
      Dict([square |-> PyFloat(25 * Scale), trine |-> PyFloat(25 * Scale)]) }

CalculateInteraspects(chart1, chart2, custom_orbs) ==
    Call("_calculate_interaspects", <<chart1, chart2, custom_orbs>>,
         _calculate_interaspects(chart1, chart2, custom_orbs))

\* two persons with a birth moment and numeric coordinates
Persons ==
    { sample_person,
      Dict([date_time |-> Str(<<"1992-08-22 10:15:00">>),
            coordinates |-> Dict([latitude |-> PyFloat(407500), longitude |-> PyFloat(-739800)])]) }

GenerateCompositeChart(person1, person2, prov) ==
    Call("generate_composite_chart",
         <<CompositeChartRequest(Dict([person1 |-> person1, person2 |-> person2])).val, prov>>,
         generate_composite_chart(
             CompositeChartRequest(Dict([person1 |-> person1, person2 |-> person2])).val, prov))

EngineNext ==
    \/ Take
    \/ \E person1 \in Persons, person2 \in Persons, prov \in ProviderOutcomes :
          GenerateCompositeChart(person1, person2, prov)
    \/ \E planets1 \in PlanetLists, planets2 \in PlanetLists, custom_orbs \in CustomOrbs :
          CalculateInteraspects(ChartOf(planets1), ChartOf(planets2), custom_orbs)
    \/ \E name \in BodyNames, sign \in SignNames, house \in {Null, PyInt(5)} :
          CalculatePlanetDignity(BodyIn(name, sign, house))
    \/ \E lat \in CoordinateInputs, lon \in CoordinateInputs : ConvertCoordinates(lat, lon)
    \/ \E chart \in Charts : ConvertImmanuelChart(chart)
    \/ \E aspects \in AspectLists : CalculateCompatibilityScore(aspects)
    \/ \E l1 \in Longitudes, l2 \in Longitudes, s1 \in Speeds, s2 \in Speeds, orbs \in OrbTables :
          CalculateAspect(Position("sun", l1 * Scale, s1), Position("moon", l2 * Scale, s2), orbs)

EngineSpec == Init /\ [][EngineNext]_vars

----------------------------------------------------------------------------
(* The server under simultaneous requests: the event loop holds several   *)
(* requests at once and runs their handlers in any order. No handler      *)
(* awaits anything that suspends it, so each one runs from its request to *)
(* its response in one step of the loop.                                  *)

ConcurrentRequests ==
    {Request("/tools/list", b) : b \in ListBodies}
    \cup {Envelope("tools/list", Null, id) : id \in 1..MaxId}
    \cup { Request("/initialize", sample_mcp_initialize_request("2024-11-05")),
           Request("/tools/call", ToolCall("invalid_tool_name", Dict(EmptyDict))),
           Request("/tools/call",
                   ToolCall("calculate_dignities",
                            Dict([chart_data |-> sample_chart_data(NumericCoordinates)]))),
           Request("/resources/list", Dict(EmptyDict)),
           Request("/resources/read", Dict([uri |-> Str(<<"astrological_objects">>)])),
           Request("/prompts/list", Dict(EmptyDict)),
           Request("/prompts/get", Dict([name |-> Str(<<"transit_report">>)])) }

\* a request arrives while others are still to be handled
Arrive(req) ==
    /\ Cardinality(pending) < MaxConcurrent
    /\ req \notin pending
    /\ pending' = pending \cup {req}
    /\ UNCHANGED <<tools, resources, prompts, last>>

ConcurrentNext ==
    \/ \E req \in ConcurrentRequests : Arrive(req)
    \/ \E req \in pending : Cancel(req)
    \/ \E req \in pending : InitializeMcp(req)
    \/ \E req \in pending : ListTools(req)
    \/ \E req \in pending, prov \in ProviderOutcomes : CallTool(req, prov)
    \/ \E req \in pending : ListResources(req)
    \/ \E req \in pending : ReadResource(req)
    \/ \E req \in pending : ListPrompts(req)
    \/ \E req \in pending : GetPrompt(req)
    \/ \E req \in pending, prov \in ProviderOutcomes : JsonRpc(req, prov)

ConcurrentSpec == Init /\ [][ConcurrentNext]_vars

----------------------------------------------------------------------------
(* One tools/call step by step: the statements of call_tool's try block   *)
(* in the order the handler runs them. Here pending holds the frame of    *)
(* the call in progress: its request, the provider's outcome should the   *)
(* executor ask for it, the statement to run next (pc), the sanitized     *)
(* arguments, the outcome of the statement run last and the statements    *)
(* run so far (trace). last keeps the frame's trace with the response.    *)

\* aspect_orbs arguments: none, orbs at the ends of the range and inside it,
\* orbs off the range, an orb that is not a number, a type that is not
\* supported, a value that is not a dict
OrbArguments ==
    { Null,
      Dict([square |-> PyInt(MaxOrb), trine |-> PyFloat(0)]),
      Dict([sextile |-> PyFloat(105000)]),
      Dict([square |-> PyFloat(MaxOrb * Scale + 1)]),
      Dict([square |-> PyInt(-1)]),
      Dict([square |-> Str(<<"wide">>)]),
      Dict([novile |-> PyFloat(2 * Scale)]),
      Dict([trine |-> PyFloat(5 * Scale), quintile |-> PyFloat(2 * Scale)]),
      List(<<>>) }

\* a person as _validate_natal_chart_args wants one, with decimal degrees
DecimalPerson ==
    Dict([date_time |-> BirthDateTime, latitude |-> PyFloat(327200),
          longitude |-> PyFloat(-1171500)])

SynastryCalls ==
    { ToolCall("calculate_synastry",
               Dict([person1 |-> DecimalPerson, person2 |-> DecimalPerson,
                     aspect_orbs |-> o])) : o \in OrbArguments }

CallRequests == {Request("/tools/call", b) : b \in ToolCallBodies \cup SynastryCalls}

\* FastAPI builds the ToolCallRequest; a body that does not fit is answered
\* 422 and call_tool is not entered
BeginCall(req, prov) ==
    /\ pending = {}
    /\ last = NoResponse
    /\ IF ToolCallRequest(req.body).ok
       THEN /\ pending' = {[req |-> req, prov |-> prov, pc |-> "get_tool", args |-> Null,
                            result |-> Return(Null), trace |-> <<>>]}
            /\ last' = last
       ELSE /\ pending' = pending
            /\ last' = [req |-> req, prov |-> prov, trace |-> <<>>,
                        result |-> Return(Null),
                        resp |-> http_endpoint(ToolCallRequest(req.body), Return(Null))]
    /\ UNCHANGED <<tools, resources, prompts>>

\* one statement of the try block has run with outcome r: an exception
\* leaves the block for the except clauses, a value goes on to next
Ran(frame, statement, r, next) ==
    /\ frame.pc = statement
    /\ pending' = {[frame EXCEPT !.pc = IF r.ok THEN next ELSE "except",
                                 !.result = r,
                                 !.trace = Append(frame.trace, statement)]}
    /\ UNCHANGED <<tools, resources, prompts, last>>

NameOf(frame) == Text(ToolCallRequest(frame.req.body).val.d["name"])

GetTool(frame) ==
    Ran(frame, "get_tool", get_tool(NameOf(frame)), "sanitize_input")

SanitizeInput(frame) ==
    /\ frame.pc = "sanitize_input"
    /\ pending' = {[frame EXCEPT
                      !.pc = IF sanitize_input(ToolCallRequest(frame.req.body).val.d["arguments"]).ok
                             THEN "validate_mcp_tool_arguments" ELSE "except",
                      !.result = sanitize_input(ToolCallRequest(frame.req.body).val.d["arguments"]),
                      !.args = sanitize_input(ToolCallRequest(frame.req.body).val.d["arguments"]).val,
                      !.trace = Append(frame.trace, "sanitize_input")]}
    /\ UNCHANGED <<tools, resources, prompts, last>>

ValidateArguments(frame) ==
    Ran(frame, "validate_mcp_tool_arguments",
        validate_mcp_tool_arguments(NameOf(frame), frame.args), "execute_tool")

\* an executor that is run again when it raises
ExecuteTool_retrying(frame) ==
    /\ frame.pc = "execute_tool"
    /\ pending' = {[frame EXCEPT
                      !.pc = IF execute_tool(NameOf(frame), frame.args, frame.prov).ok
                             THEN "return"
                             ELSE IF "execute_tool" \in Range(frame.trace) THEN "except"
                             ELSE "execute_tool",
                      !.result = execute_tool(NameOf(frame), frame.args, frame.prov),
                      !.trace = Append(frame.trace, "execute_tool")]}
    /\ UNCHANGED <<tools, resources, prompts, last>>

ExecuteTool(frame) ==
    Ran(frame, "execute_tool", execute_tool(NameOf(frame), frame.args, frame.prov), "return")

\* the ToolCallResponse is built, from the result data or in an except
\* clause, and the call ends
ReturnResult(frame) ==
    /\ frame.pc \in {"return", "except"}
    /\ pending' = {}
    /\ last' = [req |-> frame.req, prov |-> frame.prov, trace |-> frame.trace,
                result |-> frame.result,
                resp |-> http_endpoint(ToolCallRequest(frame.req.body),
                                       call_tool_response(ToolCallRequest(frame.req.body).val,
                                                          frame.result))]
    /\ UNCHANGED <<tools, resources, prompts>>

CallNext ==
    \/ \E req \in CallRequests, prov \in ProviderOutcomes : BeginCall(req, prov)
    \/ \E frame \in pending : GetTool(frame)
    \/ \E frame \in pending : SanitizeInput(frame)
    \/ \E frame \in pending : ValidateArguments(frame)
    \/ \E frame \in pending : ExecuteTool(frame)
    \/ \E frame \in pending : ReturnResult(frame)
    \/ Take

CallSpec == Init /\ [][CallNext]_vars

----------------------------------------------------------------------------
(* Properties *)

Answered == last # NoResponse

OnEnvelope(req) == req.endpoint = "/jsonrpc"

\* the method a request asks for, on either transport
MethodOf(req) ==
    IF OnEnvelope(req) THEN Text(req.body.d["method"])
    ELSE SubSeq(req.endpoint, 2, Len(req.endpoint))

\* the parameter bag of a request, on either transport
ParamsOf(req) ==
    IF ~OnEnvelope(req) THEN req.body
    ELSE IF req.body.d["params"].t = "null" THEN Dict(EmptyDict) ELSE req.body.d["params"]

\* the response is a success on its transport: HTTP 200 on a direct
\* endpoint, an envelope with a result and no error on the envelope transport
TransportSuccess(req, resp) ==
    /\ resp.status = 200
    /\ OnEnvelope(req) => (resp.body.error = Null /\ resp.body.result # Null)

\* the payload of a successful response
Payload(req, resp) == IF OnEnvelope(req) THEN resp.body.result ELSE resp.body

WellFormedToolCall(req) == MethodOf(req) = "tools/call" /\ ToolCallRequest(ParamsOf(req)).ok

ToolNameOf(req) == Text(ParamsOf(req).d["name"])

\* what the try block of call_tool came to for the answered request
InnerOutcome == call_tool_try(ToolCallRequest(ParamsOf(last.req)).val, last.prov)

\* C1: a tools/call naming a tool that is not in the catalog is answered, on
\* the direct endpoint with HTTP 200 and on the envelope transport with an
\* {id, result} envelope, by a tool result with isError true whose text names
\* the missing tool; it is never a transport-level error.
C1_AbsentToolIsErrorResult ==
    (Answered /\ WellFormedToolCall(last.req) /\ ToolNameOf(last.req) \notin Keys(tools))
    => /\ TransportSuccess(last.req, last.resp)
       /\ OnEnvelope(last.req) => last.resp.body.id = last.req.body.d["id"]
       /\ Payload(last.req, last.resp).result.isError = TRUE
       /\ \E i \in DOMAIN Payload(last.req, last.resp).result.content[1].text :
             Payload(last.req, last.resp).result.content[1].text[i] = ToolNameOf(last.req)

C1_Witness ==
    /\ Answered
    /\ OnEnvelope(last.req)
    /\ WellFormedToolCall(last.req)
    /\ ToolNameOf(last.req) = "invalid_tool_name"
    /\ last.resp.body.result.result.isError = TRUE

\* C2: when sanitization, argument validation or the executor of a
\* well-formed tools/call raises a ValidationError or a ChartGenerationError,
\* the response is a success on its transport carrying the result
\* {content: [{type: text, text: "Tool execution failed: " + message}],
\* isError: true}.
C2_FailuresBecomeErrorResults ==
    (Answered /\ WellFormedToolCall(last.req)
       /\ InnerOutcome.exc \in {"ValidationError", "ChartGenerationError"})
    => /\ TransportSuccess(last.req, last.resp)
       /\ Payload(last.req, last.resp).result =
             [content |-> <<[type |-> "text",
                             text |-> <<"Tool execution failed: ">> \o InnerOutcome.msg]>>,
              isError |-> TRUE]

C2_Witness ==
    /\ Answered
    /\ ~OnEnvelope(last.req)
    /\ WellFormedToolCall(last.req)
    /\ InnerOutcome.exc = "ChartGenerationError"
    /\ last.resp.status = 200
    /\ last.resp.body.result.isError = TRUE

\* C3: tools/call("generate_natal_chart", {date_time: "1990-05-15 14:30:00",
\* latitude: "32n43", longitude: "117w09"}) against a provider that returns
\* one body named sun yields isError false and a chart with exactly one
\* position, named sun.
C3_NatalChartEndToEnd ==
    (Answered /\ ~OnEnvelope(last.req) /\ MethodOf(last.req) = "tools/call"
       /\ last.req.body = ToolCall("generate_natal_chart", sample_natal_request)
       /\ last.prov.shape = "conforming")
    => /\ last.resp.status = 200
       /\ last.resp.body.result.isError = FALSE
       /\ Len(last.resp.body.result.content[1].data.d["planets"].l) = 1
       /\ last.resp.body.result.content[1].data.d["planets"].l[1].d["name"] = Str(<<"sun">>)


\* the names and arguments the lookups are asked with
LookupNames == Keys(tools) \cup Keys(resources) \cup Keys(prompts) \cup {"nonexistent", ""}

LookupArguments ==
    {EmptyDict, [detail_level |-> Str(<<"detailed">>)], [chart_data |-> Dict(EmptyDict)]}

\* C4: get_tool, get_resource_content and get_prompt_content fail, with
\* ToolNotFoundError, ResourceNotFoundError and PromptNotFoundError, exactly
\* when the key is not in their catalog; otherwise they return the tool
\* stored under the name, a non-empty content, a non-empty message sequence.
C4_LookupsFailIffAbsent ==
    \A key \in LookupNames :
       /\ IF key \in Keys(tools)
          THEN get_tool(key).ok /\ get_tool(key).val = Get(tools, key)
                  /\ get_tool(key).val.name = key
          ELSE get_tool(key).exc = "ToolNotFoundError"
       /\ IF key \in Keys(resources)
          THEN get_resource_content(key).ok /\ get_resource_content(key).val # {}
          ELSE get_resource_content(key).exc = "ResourceNotFoundError"
       /\ \A arguments \in LookupArguments :
             IF key \in Keys(prompts)
             THEN get_prompt_content(key, arguments).ok
                     /\ Len(get_prompt_content(key, arguments).val) > 0
             ELSE get_prompt_content(key, arguments).exc = "PromptNotFoundError"

C4_Witness ==
    /\ Answered
    /\ MethodOf(last.req) = "resources/read"
    /\ Text(ParamsOf(last.req).d["uri"]) \in Keys(resources)
    /\ TransportSuccess(last.req, last.resp)
    /\ Payload(last.req, last.resp).contents[1].text = get_resource_content("house_meanings").val

\* a direct resources/read or prompts/get whose body is well formed
DirectRead(req) == req.endpoint = "/resources/read" /\ ResourceReadRequest(req.body).ok

DirectGet(req) == req.endpoint = "/prompts/get" /\ PromptGetRequest(req.body).ok

ReadAnsweredByCatalog ==
    IF Text(last.req.body.d["uri"]) \in Keys(resources)
    THEN last.resp.status = 200 /\ Len(last.resp.body.contents) > 0
    ELSE last.resp.status = 404

GetAnsweredByCatalog ==
    IF Text(last.req.body.d["name"]) \in Keys(prompts)
    THEN last.resp.status = 200 /\ Len(last.resp.body.messages) > 0
    ELSE last.resp.status = 404

\* C5, as the specification states it: on the direct endpoints
\* resources/read and prompts/get answer 404 when the uri or name is not in
\* the catalog and succeed with non-empty contents or messages when it is,
\* whatever the arguments.
C5_DirectLookupsAnsweredByCatalog ==
    /\ (Answered /\ DirectRead(last.req)) => ReadAnsweredByCatalog
    /\ (Answered /\ DirectGet(last.req)) => GetAnsweredByCatalog

\* the arguments of a prompts/get pass sanitize_input
ArgumentsSanitize(req) == sanitize_input(PromptGetRequest(req.body).val.d["arguments"]).ok

\* C5, amended: resources/read is answered as stated; prompts/get is
\* answered as stated when its arguments pass sanitization, and by a 500,
\* listed or not, when they do not (a text argument of more than 1000
\* characters).
C5_DirectLookupsAfterSanitization ==
    /\ (Answered /\ DirectRead(last.req)) => ReadAnsweredByCatalog
    /\ (Answered /\ DirectGet(last.req))
          => IF ArgumentsSanitize(last.req)
             THEN GetAnsweredByCatalog
             ELSE last.resp.status = 500

C5_Witness ==
    /\ Answered
    /\ DirectGet(last.req)
    /\ ~ArgumentsSanitize(last.req)
    /\ Text(last.req.body.d["name"]) \notin Keys(prompts)
    /\ last.resp.status = 500

\* tools_definitions in declaration order
DeclaredToolNames ==
    <<"generate_natal_chart", "generate_progressed_chart", "generate_solar_return",
      "generate_composite_chart", "calculate_synastry", "get_transits",
      "interpret_aspects", "calculate_dignities">>

NamesOf(listed) == [i \in DOMAIN listed |-> listed[i].name]

\* C6: list_tools returns the eight tool names, each once, in declaration
\* order, whatever cursor it is given and whatever was done before; so does
\* every answered tools/list.
C6_ListToolsCompleteAndOrdered ==
    /\ \A cursor \in {Null, Str(<<"page-2">>), Str(<<>>)} :
          NamesOf(list_tools(cursor)) = DeclaredToolNames
    /\ (Answered /\ MethodOf(last.req) = "tools/list" /\ ToolsListRequest(ParamsOf(last.req)).ok)
          => /\ TransportSuccess(last.req, last.resp)
             /\ NamesOf(Payload(last.req, last.resp).tools) = DeclaredToolNames

C6_Witness ==
    /\ Answered
    /\ last.req.endpoint = "/tools/list"
    /\ "cursor" \in DOMAIN last.req.body.d
    /\ last.resp.status = 200
    /\ Len(last.resp.body.tools) = 8


\* C7: the registry is in its one state: after any sequence of requests,
\* answered with success, answered with failure or cancelled, the three
\* catalogs are the ones MCPService.__init__ built.
C7_CatalogsNeverChange == catalogs = <<_setup_tools, _setup_resources, _setup_prompts>>

C7_Witness ==
    /\ Answered
    /\ MethodOf(last.req) = "tools/call"
    /\ TransportSuccess(last.req, last.resp)
    /\ Payload(last.req, last.resp).result.isError = TRUE
    /\ pending # {}
    /\ NamesOf(Values(tools)) = DeclaredToolNames

\* the request is a protocol error: an envelope naming a method that has no
\* handler, or an initialize whose protocolVersion is not the supported one
IsProtocolError(req) ==
    \/ OnEnvelope(req) /\ JSONRPCRequest(req.body).ok /\ MethodOf(req) \notin method_handlers
    \/ /\ MethodOf(req) = "initialize"
       /\ Has(ParamsOf(req), "protocolVersion")
       /\ ~StrIn(ParamsOf(req).d["protocolVersion"], MCPProtocolVersion)

\* C8: a protocol error is answered by a transport-level error: a status
\* other than 200 on the direct endpoint, an envelope with an error and no
\* result on the envelope transport.
C8_ProtocolErrorsAreTransportErrors ==
    (Answered /\ IsProtocolError(last.req))
    => IF OnEnvelope(last.req)
       THEN last.resp.body.error # Null /\ last.resp.body.result = Null
       ELSE last.resp.status # 200

C8_Witness ==
    /\ Answered
    /\ OnEnvelope(last.req)
    /\ MethodOf(last.req) = "invalid/method"
    /\ last.resp.body.error.message = <<"Unknown method: ", "invalid/method">>

\* the error code the envelope transport gives an unknown method
UnknownMethodCode ==
    jsonrpc_handler(JSONRPCRequest(Envelope("invalid/method", Dict(EmptyDict), 1).body).val,
                    NoProvider).val.error.code

\* an envelope resources/read or prompts/get for a key the catalog lacks
EnvelopeNotFound(req) ==
    /\ OnEnvelope(req)
    /\ JSONRPCRequest(req.body).ok
    /\ \/ /\ MethodOf(req) = "resources/read"
          /\ ResourceReadRequest(ParamsOf(req)).ok
          /\ Text(ParamsOf(req).d["uri"]) \notin Keys(resources)
       \/ /\ MethodOf(req) = "prompts/get"
          /\ PromptGetRequest(ParamsOf(req)).ok
          /\ Text(ParamsOf(req).d["name"]) \notin Keys(prompts)

\* C9: on the envelope transport the error of a resources/read or
\* prompts/get NotFound carries the code 404 and differs by its code from
\* the error of an unknown method.
C9_NotFoundCodeDistinctFromUnknownMethod ==
    (Answered /\ EnvelopeNotFound(last.req))
    => /\ last.resp.body.error # Null
       /\ last.resp.body.error.code = 404
       /\ last.resp.body.error.code # UnknownMethodCode

\* C10: every response of the envelope transport carries the id of its
\* request and exactly one of result and error: the result when the routed
\* handler returned, an error with a code and a message when it raised.
C10_EnvelopeCarriesIdAndOneOutcome ==
    (Answered /\ OnEnvelope(last.req) /\ JSONRPCRequest(last.req.body).ok)
    => /\ last.resp.status = 200
       /\ last.resp.body.id = last.req.body.d["id"]
       /\ IF jsonrpc_handler_try(JSONRPCRequest(last.req.body).val, last.prov).ok
          THEN last.resp.body.result # Null /\ last.resp.body.error = Null
          ELSE /\ last.resp.body.result = Null
               /\ last.resp.body.error # Null
               /\ {"code", "message"} \subseteq DOMAIN last.resp.body.error

C10_Witness ==
    /\ Answered
    /\ OnEnvelope(last.req)
    /\ last.req.body.d["id"] = PyInt(2)
    /\ last.resp.body.id = PyInt(2)
    /\ last.resp.body.result = Null
    /\ last.resp.body.error.code = -32603

\* the response of the direct endpoint of a method to a parameter bag
DirectResponse(method, params, prov) ==
    CASE method = "initialize" ->
           http_endpoint(InitializeRequest(params),
                         initialize_mcp(InitializeRequest(params).val, Settings))
      [] method = "tools/list" ->
           http_endpoint(ToolsListRequest(params),
                         list_tools_endpoint(ToolsListRequest(params).val))
      [] method = "tools/call" ->
           http_endpoint(ToolCallRequest(params), call_tool(ToolCallRequest(params).val, prov))
      [] method = "resources/list" ->
           http_endpoint(ResourcesListRequest(params),
                         list_resources_endpoint(ResourcesListRequest(params).val))
      [] method = "resources/read" ->
           http_endpoint(ResourceReadRequest(params),
                         read_resource(ResourceReadRequest(params).val))
      [] method = "prompts/list" ->
           http_endpoint(PromptsListRequest(params),
                         list_prompts_endpoint(PromptsListRequest(params).val))
      [] method = "prompts/get" ->
           http_endpoint(PromptGetRequest(params), get_prompt(PromptGetRequest(params).val))

\* an answered envelope request for one of the seven methods
EnvelopeFor(methods) ==
    /\ Answered
    /\ OnEnvelope(last.req)
    /\ JSONRPCRequest(last.req.body).ok
    /\ MethodOf(last.req) \in methods

\* the envelope answer agrees with the direct endpoint's success
SameAsDirect ==
    DirectResponse(MethodOf(last.req), ParamsOf(last.req), last.prov).status = 200
    => /\ last.resp.status = 200
       /\ last.resp.body =
             JSONRPCResponse(last.req.body.d["id"],
                             DirectResponse(MethodOf(last.req), ParamsOf(last.req),
                                            last.prov).body,
                             Null)

\* C11: for each of the seven methods, whenever the direct endpoint answers
\* the parameters P with a successful response R, the envelope request
\* {method, params: P, id} is answered {id, result: R} and not an error.
C11_EnvelopeAcceptsAllSevenMethods == EnvelopeFor(method_handlers) => SameAsDirect

\* the exact angle of each aspect type, in degrees
exactAngle ==
    [conjunction |-> 0, sextile |-> 60, square |-> 90, trine |-> 120, opposition |-> 180]

\* the orb an orb table configures for a type; 8 degrees for a type it does
\* not name
OrbIn(orbs, type) == IF type \in DOMAIN orbs THEN orbs[type].n ELSE 8 * Scale

\* the longitudes and the table of the last _calculate_aspect call
LonA == last.req.body[1].d["longitude"].n

LonB == last.req.body[2].d["longitude"].n

OrbTable == last.req.body[3]

\* the separation of the two longitudes
Separation == Min(Abs(LonA - LonB), 360 * Scale - Abs(LonA - LonB))

Deviation(type) == Abs(Separation - exactAngle[type] * Scale)

\* C12: _calculate_aspect returns an Aspect of type T only if the
\* separation deviates from the exact angle of T by at most the orb the
\* table gives T, and the orb of the Aspect is that deviation; when no type
\* is within its orb (longitudes 0 and 45 with the default orbs) it returns
\* no Aspect.
C12_AspectOnlyWithinOrb ==
    Called("_calculate_aspect")
    => /\ last.resp # Null
          => /\ Text(last.resp.d["aspect_type"]) \in DOMAIN exactAngle
             /\ Deviation(Text(last.resp.d["aspect_type"]))
                   <= OrbIn(OrbTable, Text(last.resp.d["aspect_type"]))
             /\ last.resp.d["orb"] = PyFloat(Deviation(Text(last.resp.d["aspect_type"])))
       /\ (\A type \in DOMAIN exactAngle : Deviation(type) > OrbIn(OrbTable, type))
          => last.resp = Null
       /\ ({LonA, LonB} = {0, 45 * Scale} /\ OrbTable = ASPECT_ORBS) => last.resp = Null

C12_Witness ==
    /\ Called("_calculate_aspect")
    /\ LonA = 2 * Scale
    /\ LonB = 90 * Scale
    /\ OrbTable = ASPECT_ORBS
    /\ last.resp # Null
    /\ last.resp.d["aspect_type"] = Str(<<"square">>)
    /\ last.resp.d["orb"] = PyFloat(2 * Scale)

\* two longitudes exactly 90 degrees apart, the shorter way round
ExactlySquare == Abs(LonA - LonB) \in {90 * Scale, 270 * Scale}

ReturnsExactSquare ==
    /\ last.resp # Null
    /\ last.resp.d["aspect_type"] = Str(<<"square">>)
    /\ last.resp.d["orb"].n = 0

\* C13 as stated: for two longitudes exactly 90 degrees apart (across the
\* 0/360 seam too) and any orb table with orbs >= 0, _calculate_aspect
\* returns a square Aspect with orb 0.
C13_ExactSquareForAnyOrbs ==
    (Called("_calculate_aspect") /\ ExactlySquare
       /\ \A type \in DOMAIN exactAngle : OrbIn(OrbTable, type) >= 0)
    => ReturnsExactSquare

\* C13 amended: the same for the orb tables whose conjunction orb is below
\* 90 and whose sextile orb is below 30, the types tried before square.
C13_ExactSquareUnlessEarlierTypeInOrb ==
    (Called("_calculate_aspect") /\ ExactlySquare
       /\ \A type \in DOMAIN exactAngle : OrbIn(OrbTable, type) >= 0
       /\ OrbIn(OrbTable, "conjunction") < 90 * Scale
       /\ OrbIn(OrbTable, "sextile") < 30 * Scale)
    => ReturnsExactSquare

C13_Witness ==
    /\ Called("_calculate_aspect")
    /\ LonA = 350 * Scale
    /\ LonB = 80 * Scale
    /\ OrbIn(OrbTable, "square") = 0
    /\ ReturnsExactSquare

\* the aspect list of the last _calculate_compatibility_score call
Scored == last.req.body

CountIn(types) == Cardinality({i \in DOMAIN Scored : Text(Scored[i].d["aspect_type"]) \in types})

H == CountIn({"trine", "sextile", "conjunction"})

C == CountIn({"square", "opposition"})

N == Len(Scored)

\* C14: appending a trine to an aspect list never lowers its score,
\* appending a square never raises it, and the empty list scores exactly 0.
C14_ScoreMonotonic ==
    Called("_calculate_compatibility_score")
    => /\ _calculate_compatibility_score(Append(Scored, AspectOf("trine"))).n >= last.resp.n
       /\ _calculate_compatibility_score(Append(Scored, AspectOf("square"))).n <= last.resp.n
       /\ Scored = <<>> => last.resp = PyFloat(0)

C14_Witness ==
    /\ Called("_calculate_compatibility_score")
    /\ N = 2 /\ H = 1 /\ C = 1
    /\ _calculate_compatibility_score(Append(Scored, AspectOf("trine"))).n > last.resp.n
    /\ _calculate_compatibility_score(Append(Scored, AspectOf("square"))).n < last.resp.n

\* C15: for a non-empty aspect list the score is ((H - C) / N + 1) * 50 (to
\* the precision of the arithmetic), lies in [0, 100], is above 50 when
\* H > C and below 50 when H < C.
C15_ScoreFormula ==
    (Called("_calculate_compatibility_score") /\ N > 0)
    => /\ Abs(last.resp.n * N - (H - C + N) * 50 * Scale) <= 50 * N
       /\ last.resp.n >= 0 /\ last.resp.n <= 100 * Scale
       /\ H > C => last.resp.n > 50 * Scale
       /\ H < C => last.resp.n < 50 * Scale

C15_Witness ==
    /\ Called("_calculate_compatibility_score")
    /\ N = 3 /\ H = 2 /\ C = 0
    /\ last.resp.n > 80 * Scale
    /\ last.resp.n < 85 * Scale

\* the chart of the last _convert_immanuel_chart call
Converted == last.req.body[1]

\* the values of a field of the items of a sequence of dicts, in order
FieldOf(items, field) == [i \in DOMAIN items |-> items[i].d[field]]

WithLongitude(items) == SelectSeq(items, LAMBDA item : "longitude" \in DOMAIN item.d)

\* the positions, houses and aspects of the result are those of the chart,
\* in the order of the chart
OrderPreserved ==
    /\ FieldOf(last.resp.val.d["planets"].l, "name")
          = FieldOf(WithLongitude(Converted.objects), "name")
    /\ FieldOf(last.resp.val.d["houses"].l, "number")
          = FieldOf(WithLongitude(Converted.houses), "number")
    /\ FieldOf(last.resp.val.d["aspects"].l, "aspect_type")
          = FieldOf(Converted.aspects, "type")

\* C16: _convert_immanuel_chart fails with a ChartGenerationError when the
\* chart has no positions or no house cusps, and otherwise succeeds with its
\* positions, houses and aspects in the order of the chart.
C16_EmptyChartIsAnError ==
    Called("_convert_immanuel_chart")
    => IF WithLongitude(Converted.objects) = <<>> \/ WithLongitude(Converted.houses) = <<>>
       THEN ~last.resp.ok /\ last.resp.exc = "ChartGenerationError"
       ELSE last.resp.ok /\ OrderPreserved

\* the letters of a text without the blanks around it, in lower case
Letters(coord) == LowerAll(Strip(coord).s)

\* the place of the direction letter of a degree-direction-minutes text: 0
\* when the text is not of that form
DirectionAt(coord) ==
    IF \E i \in DOMAIN Letters(coord) :
          /\ Letters(coord)[i] \in {"n", "s", "e", "w"}
          /\ i > 1 /\ i < Len(Letters(coord))
          /\ \A j \in DOMAIN Letters(coord) : j # i => Letters(coord)[j] \in Digits
    THEN CHOOSE i \in DOMAIN Letters(coord) : Letters(coord)[i] \in {"n", "s", "e", "w"}
    ELSE 0

IsDirectional(coord) == IsStr(coord) /\ DirectionAt(coord) # 0

\* degrees + minutes / 60, negated for s and w
Directional(coord) ==
    (IF Letters(coord)[DirectionAt(coord)] \in {"s", "w"} THEN 0 - 1 ELSE 1)
    * (DigitsVal(SubSeq(Letters(coord), 1, DirectionAt(coord) - 1)) * Scale
       + (DigitsVal(SubSeq(Letters(coord), DirectionAt(coord) + 1, Len(Letters(coord))))
            * Scale) \div 60)

\* the value the claim gives a numeric or directional coordinate
Normalized(coord) == IF IsNumber(coord) THEN coord.n ELSE Directional(coord)

\* C17: _convert_coordinates returns a number as the same signed value and a
\* text <degrees><direction><minutes> (direction n, s, e or w in either
\* case) as degrees + minutes / 60, negated exactly for s and w; 32.7167 and
\* "32n43" come within 0.01 of each other.
C17_CoordinatesNormalized ==
    (Called("_convert_coordinates")
       /\ \A i \in 1..2 : IsNumber(last.req.body[i]) \/ IsDirectional(last.req.body[i]))
    => /\ last.resp.ok
       /\ \A i \in 1..2 : last.resp.val[i] = Normalized(last.req.body[i])
       /\ (last.req.body[1] = PyFloat(327167) /\ last.req.body[2] = Chars("32n43"))
          => Abs(last.resp.val[1] - last.resp.val[2]) <= Scale \div 100

C17_Witness ==
    /\ Called("_convert_coordinates")
    /\ last.req.body = <<Chars("32n43"), Chars("117w09")>>
    /\ last.resp.ok
    /\ last.resp.val = <<327166, -1171500>>

\* a text float() reads
IsFloatText(coord) == IsStr(coord) /\ py_float(Letters(coord)).ok

\* C18: _convert_coordinates fails with a ValidationError when a text is
\* neither directional nor a bare float, or when a value falls outside its
\* axis range; every pair it returns has its latitude in [-90, 90] and its
\* longitude in [-180, 180].
C18_CoordinatesInRange ==
    Called("_convert_coordinates")
    => /\ (\E i \in 1..2 : ~IsNumber(last.req.body[i]) /\ ~IsDirectional(last.req.body[i])
                               /\ ~IsFloatText(last.req.body[i]))
          => (~last.resp.ok /\ last.resp.exc = "ValidationError")
       /\ last.resp.ok
          => /\ Abs(last.resp.val[1]) <= 90 * Scale
             /\ Abs(last.resp.val[2]) <= 180 * Scale

\* the components of a dignity score
Components == {"ruler", "exalted", "triplicity", "term", "face", "detriment", "fall"}

RECURSIVE SumOver(_, _)
SumOver(score, fields) ==
    IF fields = {} THEN 0
    ELSE LET f == CHOOSE g \in fields : TRUE
         IN  score[f] + SumOver(score, fields \ {f})

\* whether the static table has an entry for the body in its sign
InTable(planet) ==
    /\ lower_text(Show(planet.d["name"])) \in DOMAIN dignity_map
    /\ lower_text(Show(planet.d["sign"]))
          \in DOMAIN dignity_map[lower_text(Show(planet.d["name"]))]

\* C19: _calculate_planet_dignity gives an all-zero score to a body whose
\* (name, sign) is not in the static table; for one that is, exactly one of
\* ruler (5) and exalted (4) is set; the total is always the sum of the
\* seven components.
C19_DignityScore ==
    Called("_calculate_planet_dignity")
    => /\ last.resp.total_score = SumOver(last.resp, Components)
       /\ IF InTable(last.req.body)
          THEN \/ last.resp.ruler = 5 /\ last.resp.exalted = 0
               \/ last.resp.ruler = 0 /\ last.resp.exalted = 4
          ELSE /\ \A f \in Components : last.resp[f] = 0
               /\ last.resp.total_score = 0

C19_Witness ==
    /\ Called("_calculate_planet_dignity")
    /\ last.req.body.d["name"] = Str(<<"Sun">>)
    /\ last.req.body.d["sign"] = Str(<<"Aries">>)
    /\ last.resp.exalted = 4
    /\ last.resp.ruler = 0
    /\ last.resp.total_score = 4

\* the response a request gets when it is the only one the server handles
AloneResponse(req, prov) ==
    IF OnEnvelope(req)
    THEN http_endpoint(JSONRPCRequest(req.body), jsonrpc_handler(JSONRPCRequest(req.body).val, prov))
    ELSE DirectResponse(MethodOf(req), req.body, prov)

CatalogsComplete == catalogs = <<_setup_tools, _setup_resources, _setup_prompts>>

ToolsListAnswered == Answered /\ MethodOf(last.req) = "tools/list"

\* C20: under every interleaving of simultaneous list, get, tools/call,
\* resources/read and prompts/get requests, each request observes the same
\* complete catalogs and gets the response it would get when run alone;
\* every one of several simultaneous tools/list requests succeeds with the
\* full tool set.
C20_ConcurrentRequestsAsAlone ==
    /\ CatalogsComplete
    /\ Answered => last.resp = AloneResponse(last.req, last.prov)
    /\ ToolsListAnswered
       => /\ TransportSuccess(last.req, last.resp)
          /\ NamesOf(Payload(last.req, last.resp).tools) = DeclaredToolNames

\* a tools/list is answered with the full tool set while another tools/list
\* is still in flight
C20_Witness ==
    /\ ToolsListAnswered
    /\ last.resp.status = 200
    /\ \E other \in pending : MethodOf(other) = "tools/list"

\* the statements of call_tool's try block, in program order
Statements == <<"get_tool", "sanitize_input", "validate_mcp_tool_arguments", "execute_tool">>

IsPrefix(t, u) == Len(t) <= Len(u) /\ t = SubSeq(u, 1, Len(t))

\* lookup, sanitization and validation of a call, computed apart from its run
ChecksPass(req) ==
    /\ get_tool(ToolNameOf(req)).ok
    /\ sanitize_input(req.body.d["arguments"]).ok
    /\ validate_mcp_tool_arguments(ToolNameOf(req),
                                   sanitize_input(req.body.d["arguments"]).val).ok

\* what a run of a call has done so far: each statement at most once and in
\* order, the executor only after the three checks passed, and nothing after
\* a statement that raised
RunInOrder(req, trace, result) ==
    /\ IsPrefix(trace, Statements)
    /\ "execute_tool" \in Range(trace) => ChecksPass(req)
    /\ ~ChecksPass(req) => "execute_tool" \notin Range(trace)
    /\ Cardinality({i \in DOMAIN trace : trace[i] = "execute_tool"}) <= 1

\* a call ended by an error ran no statement after the one that raised, and
\* its response is the error result of that exception
EndedByError(call) ==
    ~call.result.ok
    => /\ call.trace # <<>>
       /\ ~ChecksPass(call.req) => Len(call.trace) < Len(Statements)
       /\ call.resp.status = 200
       /\ call.resp.body.result.isError

\* C21: within one tools/call, tool lookup, input sanitization and argument
\* validation complete before the executor is invoked; if any of them fails
\* the executor is never invoked; the executor is invoked at most once; no
\* error is retried and every error ends the call that raised it. The
\* response of the call run statement by statement is call_tool's.
C21_ChecksBeforeExecutorOnce ==
    /\ \A frame \in pending :
          /\ RunInOrder(frame.req, frame.trace, frame.result)
          /\ frame.pc = "except" <=> (frame.trace # <<>> /\ ~frame.result.ok)
    /\ (Answered /\ ToolCallRequest(last.req.body).ok)
          => /\ RunInOrder(last.req, last.trace, last.result)
             /\ EndedByError(last)
             /\ last.resp = http_endpoint(ToolCallRequest(last.req.body),
                                          call_tool(ToolCallRequest(last.req.body).val, last.prov))

\* a call ran its four statements, the executor once, and succeeded
C21_Witness ==
    /\ Answered
    /\ last.trace = Statements
    /\ last.result.ok
    /\ ~last.resp.body.result.isError

\* the five types in the order conjunction, sextile, square, trine, opposition
TypeOrder == <<"conjunction", "sextile", "square", "trine", "opposition">>

\* the positions in TypeOrder of the types whose orb holds the separation
Matching == {i \in DOMAIN TypeOrder : Deviation(TypeOrder[i]) <= OrbIn(OrbTable, TypeOrder[i])}

FirstMatching == TypeOrder[CHOOSE i \in Matching : \A j \in Matching : i <= j]

\* C22: when the orbs make more than one aspect type match the same
\* separation, _calculate_aspect returns exactly one Aspect, of the first
\* matching type in the order conjunction, sextile, square, trine,
\* opposition; it never reports two types for the same pair of bodies.
C22_FirstMatchingTypeWins ==
    (Called("_calculate_aspect") /\ Cardinality(Matching) > 1)
    => /\ last.resp # Null
       /\ IsDict(last.resp)
       /\ last.resp.d["aspect_type"] = Str(<<FirstMatching>>)
       /\ last.resp.d["exact_orb"] = PyFloat(exactAngle[FirstMatching] * Scale)

\* 350 and 90 are 100 apart: within 25 of a square and of a trine
C22_Witness ==
    /\ Called("_calculate_aspect")
    /\ LonA = 350 * Scale
    /\ LonB = 90 * Scale
    /\ OrbIn(OrbTable, "square") = 25 * Scale
    /\ Cardinality(Matching) = 2
    /\ last.resp # Null
    /\ last.resp.d["aspect_type"] = Str(<<"square">>)

\* the longitude of a position is in [0, 360)
OnTheCircle(lon) == 0 <= lon /\ lon < 360 * Scale

\* the separation _calculate_aspect computes for the positions of the call
Computed == diff(last.req.body[1], last.req.body[2])

\* C23: for any two positions given to _calculate_aspect, the separation it
\* computes is min(|lonA - lonB|, 360 - |lonA - lonB|) and lies in [0, 180];
\* longitudes 358 and 2 are 4 apart, not 356, so with the default orbs they
\* are in conjunction with orb 4.
C23_SeparationWrapsAtSeam ==
    (Called("_calculate_aspect") /\ OnTheCircle(LonA) /\ OnTheCircle(LonB))
    => /\ Computed = Min(Abs(LonA - LonB), 360 * Scale - Abs(LonA - LonB))
       /\ 0 <= Computed /\ Computed <= 180 * Scale
       /\ last.resp # Null
          => last.resp.d["orb"].n = Abs(Computed - last.resp.d["exact_orb"].n)
       /\ ({LonA, LonB} = {358 * Scale, 2 * Scale})
          => /\ Computed = 4 * Scale
             /\ OrbTable = ASPECT_ORBS
                => /\ last.resp # Null
                   /\ last.resp.d["aspect_type"] = Str(<<"conjunction">>)
                   /\ last.resp.d["orb"] = PyFloat(4 * Scale)

C23_Witness ==
    /\ Called("_calculate_aspect")
    /\ LonA = 358 * Scale
    /\ LonB = 2 * Scale
    /\ OrbTable = ASPECT_ORBS
    /\ Computed = 4 * Scale
    /\ last.resp # Null
    /\ last.resp.d["orb"] = PyFloat(4 * Scale)

\* the speeds of the two positions of the last _calculate_aspect call
SpeedA == last.req.body[1].d["speed"].n

SpeedB == last.req.body[2].d["speed"].n

\* C24: every Aspect _calculate_aspect returns has applying = (speedA >
\* speedB) and separating = (speedA < speedB); the two flags are never both
\* set, and with equal speeds neither is set.
C24_ApplyingAndSeparatingFlags ==
    (Called("_calculate_aspect") /\ last.resp # Null)
    => /\ last.resp.d["applying"] = Bool(SpeedA > SpeedB)
       /\ last.resp.d["separating"] = Bool(SpeedA < SpeedB)
       /\ ~(last.resp.d["applying"] = Bool(TRUE) /\ last.resp.d["separating"] = Bool(TRUE))
       /\ SpeedA = SpeedB
          => /\ last.resp.d["applying"] = Bool(FALSE)
             /\ last.resp.d["separating"] = Bool(FALSE)

\* an Aspect between two bodies of equal speed
C24_Witness ==
    /\ Called("_calculate_aspect")
    /\ last.resp # Null
    /\ SpeedA = SpeedB
    /\ last.resp.d["applying"] = Bool(FALSE)
    /\ last.resp.d["separating"] = Bool(FALSE)

\* the charts and the custom orbs of the last _calculate_interaspects call
PlanetsA == last.req.body[1].d["planets"].l

PlanetsB == last.req.body[2].d["planets"].l

GivenOrbs == last.req.body[3]

\* the Aspects _calculate_aspect produces for a of A at position i against
\* the bodies of B from position j on, then for the later bodies of A
\* against all of B
RECURSIVE Detected(_, _, _, _, _)
Detected(A, B, table, i, j) ==
    IF i > Len(A) THEN <<>>
    ELSE IF j > Len(B) THEN Detected(A, B, table, i + 1, 1)
    ELSE IF _calculate_aspect(A[i], B[j], table) = Null THEN Detected(A, B, table, i, j + 1)
    ELSE <<_calculate_aspect(A[i], B[j], table)>> \o Detected(A, B, table, i, j + 1)

\* the default orbs, replaced by the custom orbs for the types they name
EffectiveOrbs ==
    [type \in DOMAIN ASPECT_ORBS |->
        IF GivenOrbs.t = "dict" /\ type \in DOMAIN GivenOrbs.d THEN GivenOrbs.d[type]
        ELSE ASPECT_ORBS[type]]

\* C25 as stated: _calculate_interaspects(A, B, orbTable) returns exactly the
\* Aspects produced by _calculate_aspect(a, b, orbTable) for every a in A
\* and every b in B, ordered by the position of a in A, then of b in B.
C25_AllPairsWithGivenTable ==
    (Called("_calculate_interaspects") /\ GivenOrbs.t = "dict")
    => last.resp.l = Detected(PlanetsA, PlanetsB, GivenOrbs.d, 1, 1)

\* C25 amended: _calculate_interaspects(A, B, orbTable) returns exactly the
\* Aspects produced by _calculate_aspect(a, b, T) for every a in A and every
\* b in B, where T is the default orb table with the entries of orbTable
\* replacing the defaults of the types it names (the defaults alone when no
\* orbTable is given); each pair contributes at most one Aspect, ordered by
\* the position of a in A, then of b in B.
C25_AllPairsWithMergedTable ==
    Called("_calculate_interaspects")
    => /\ last.resp.l = Detected(PlanetsA, PlanetsB, EffectiveOrbs, 1, 1)
       /\ Len(last.resp.l) <= Len(PlanetsA) * Len(PlanetsB)

\* moon against sun and mars, then mars against sun and mars, under wide
\* square and trine orbs: the moon-sun square, then the mars-sun square,
\* then the mars-mars conjunction
C25_Witness ==
    /\ Called("_calculate_interaspects")
    /\ Len(PlanetsA) = 2 /\ Len(PlanetsB) = 2
    /\ PlanetsA[1].d["name"] = Str(<<"moon">>)
    /\ PlanetsA[2].d["name"] = Str(<<"mars">>)
    /\ PlanetsB[1].d["name"] = Str(<<"sun">>)
    /\ PlanetsB[2].d["name"] = Str(<<"mars">>)
    /\ GivenOrbs.t = "dict" /\ "square" \in DOMAIN GivenOrbs.d
    /\ Len(last.resp.l) = 3
    /\ last.resp.l[1].d["planet1"] = Str(<<"moon">>)
    /\ last.resp.l[1].d["planet2"] = Str(<<"sun">>)
    /\ last.resp.l[2].d["planet1"] = Str(<<"mars">>)
    /\ last.resp.l[2].d["planet2"] = Str(<<"sun">>)
    /\ last.resp.l[3].d["aspect_type"] = Str(<<"conjunction">>)

\* C26: when _calculate_interaspects is applied to a single chart (A and B
\* are the same chart), self-pairs are excluded: the result has no Aspect
\* relating a body to itself.
C26_NoSelfPairsInSingleChart ==
    (Called("_calculate_interaspects") /\ last.req.body[1] = last.req.body[2])
    => \A i \in DOMAIN last.resp.l : last.resp.l[i].d["planet1"] # last.resp.l[i].d["planet2"]

\* the two persons of the last generate_composite_chart call
Person1 == last.req.body[1].d["person1"]

Person2 == last.req.body[1].d["person2"]

Midpoint(a, b) == PyFloat((a.n + b.n) \div 2)

\* C27: composite-chart generation for two valid persons, given a provider
\* result, succeeds and returns a new ChartData tagged "composite" whose
\* coordinates are the arithmetic midpoint of the two persons' coordinate
\* pairs and whose timestamp is the midpoint of their timestamps (their
\* common timestamp when the two are born at the same moment), leaving both
\* inputs unmodified.
C27_CompositeChartOfMidpoint ==
    (Called("generate_composite_chart") /\ last.req.body[2].t = "chart"
       /\ last.req.body[2].shape = "conforming")
    => /\ last.resp.ok
       /\ last.resp.val.d["chart_type"] = Str(<<"composite">>)
       /\ last.resp.val.d["coordinates"].d["latitude"]
             = Midpoint(Person1.d["coordinates"].d["latitude"],
                        Person2.d["coordinates"].d["latitude"])
       /\ last.resp.val.d["coordinates"].d["longitude"]
             = Midpoint(Person1.d["coordinates"].d["longitude"],
                        Person2.d["coordinates"].d["longitude"])
       /\ Person1.d["date_time"] = Person2.d["date_time"]
          => last.resp.val.d["date_time"] = Person1.d["date_time"]

\* a calculate_synastry call whose persons pass validation
SynastryCall(req) ==
    /\ ToolCallRequest(req.body).ok
    /\ ToolNameOf(req) = "calculate_synastry"
    /\ "aspect_orbs" \in DOMAIN req.body.d["arguments"].d
    /\ _validate_natal_chart_args(req.body.d["arguments"].d["person1"]).ok
    /\ _validate_natal_chart_args(req.body.d["arguments"].d["person2"]).ok

AspectOrbsOf(req) == req.body.d["arguments"].d["aspect_orbs"]

SupportedTypes ==
    {"conjunction", "opposition", "trine", "square", "sextile",
     "quincunx", "semisextile", "semisquare", "sesquisquare"}

\* no custom orbs, or a table of supported types with numeric orbs in [0, 30]
WithinBounds(o) ==
    \/ o = Null
    \/ /\ IsDict(o)
       /\ \A type \in DOMAIN o.d :
             /\ type \in SupportedTypes
             /\ IsNumber(o.d[type])
             /\ 0 <= o.d[type].n /\ o.d[type].n <= 30 * Scale

\* the orb _calculate_aspect uses for a type under accepted custom orbs: the
\* custom orb of a type they name, the default orb of any other, in [0, 30]
UsedOrbsBounded(o) ==
    \A type \in DOMAIN exactAngle :
       /\ orb_of(merged_orbs(o), type)
             = IF IsDict(o) /\ type \in DOMAIN o.d THEN o.d[type].n ELSE ASPECT_ORBS[type].n
       /\ 0 <= orb_of(merged_orbs(o), type)
       /\ orb_of(merged_orbs(o), type) <= 30 * Scale

\* C28: in a calculate_synastry tools/call, an aspect_orbs entry that names
\* an unsupported aspect type, or gives a non-numeric orb or an orb outside
\* [0, 30], is rejected as a ValidationError, reported in-band, before the
\* executor runs and any chart is generated; accepted custom orbs replace
\* the default orb only for the types they name, so every orb used by
\* _calculate_aspect lies in [0, 30].
C28_OrbsBounded ==
    /\ \A frame \in pending :
          (SynastryCall(frame.req) /\ "execute_tool" \in Range(frame.trace) \cup {frame.pc})
          => /\ WithinBounds(AspectOrbsOf(frame.req))
             /\ UsedOrbsBounded(AspectOrbsOf(frame.req))
    /\ (Answered /\ SynastryCall(last.req))
          => IF WithinBounds(AspectOrbsOf(last.req))
             THEN /\ last.trace = Statements
                  /\ UsedOrbsBounded(AspectOrbsOf(last.req))
             ELSE /\ last.trace = SubSeq(Statements, 1, 3)
                  /\ last.result.exc = "ValidationError"
                  /\ last.resp.status = 200
                  /\ last.resp.body.result.isError
                  /\ last.resp.body.result.content[1].text
                        = <<"Tool execution failed: ">> \o last.result.msg

\* an orb just above 30 is rejected by the validator
C28_Witness ==
    /\ Answered
    /\ SynastryCall(last.req)
    /\ IsDict(AspectOrbsOf(last.req))
    /\ "square" \in DOMAIN AspectOrbsOf(last.req).d
    /\ AspectOrbsOf(last.req).d["square"] = PyFloat(MaxOrb * Scale + 1)
    /\ last.result.exc = "ValidationError"
    /\ "execute_tool" \notin Range(last.trace)
    /\ last.resp.body.result.isError

\* C29: the dispatch tables agree with the catalogs: the names of the tool
\* catalog are the names that have an executor and the names that have an
\* argument validator, every catalog resource uri has a content entry and
\* every catalog prompt name has a generator; so a request whose key passes
\* the catalog check never fails later for a missing executor, content entry
\* or generator.
C29_DispatchTablesAgreeWithCatalogs ==
    /\ Keys(tools) = tool_executors
    /\ Keys(tools) = validators
    /\ Keys(resources) \subseteq DOMAIN content_map
    /\ Keys(prompts) \subseteq DOMAIN prompt_generators
    /\ \A uri \in Keys(resources) :
          get_resource_content(uri).ok /\ get_resource_content(uri).val # {}
    /\ \A name \in Keys(prompts) :
          /\ get_prompt_content(name, EmptyDict).ok
          /\ get_prompt_content(name, EmptyDict).val # <<>>
    /\ (Answered /\ WellFormedToolCall(last.req) /\ ToolNameOf(last.req) \in Keys(tools))
          => (InnerOutcome.ok \/ InnerOutcome.exc # "ToolNotFoundError")

\* a call of a catalog tool that reached its executor and got its result
C29_Witness ==
    /\ Answered
    /\ WellFormedToolCall(last.req)
    /\ ToolNameOf(last.req) = "calculate_dignities"
    /\ InnerOutcome.ok
    /\ TransportSuccess(last.req, last.resp)
    /\ ~Payload(last.req, last.resp).result.isError

\* the two coordinates of the last _convert_coordinates call
Lat == last.req.body[1]

Lon == last.req.body[2]

\* C30: the three coordinate checks accept the same inputs: a latitude and
\* longitude accepted by validate_coordinates are accepted by
\* GeographicCoordinate and converted without error by _convert_coordinates,
\* and degree-direction-minutes strings the conversion accepts ("32n43")
\* are accepted by both validators.
C30_CoordinateChecksAgree ==
    Called("_convert_coordinates")
    => /\ validate_coordinates(Lat, Lon).ok
          => /\ GeographicCoordinate(Dict([latitude |-> Lat, longitude |-> Lon])).ok
             /\ last.resp.ok
       /\ (IsDirectional(Lat) /\ IsDirectional(Lon) /\ last.resp.ok)
          => /\ validate_coordinates(Lat, Lon).ok
             /\ GeographicCoordinate(Dict([latitude |-> Lat, longitude |-> Lon])).ok

====
